---- MODULE Spec2Model ----
(***************************************************************************)
(* The editable document engine of AgIsoTerminalDesigner: the EditorProject*)
(* aggregate (committed pool, staging pool, undo/redo histories, selection,*)
(* object names), the identifier allocator and the DesignerApp frame that  *)
(* drives them.                                                            *)
(***************************************************************************)
EXTENDS Integers, Sequences, FiniteSets, TLC

\* ------------------------------------------------------------------ bounds
\* Largest number of objects a staging pool is allowed to grow to.
MaxObjects == 3
\* Number of user events and frame ends explored from the initial document.
MaxOps == 5

\* Number of objects of the pools the cycle guard is run on.
MaxNodes == 2

\* Number of user events and frame ends explored while references are edited.
MaxRefOps == 4

\* Number of import merges, deletions and frame ends explored.
MaxImportOps == 2

\* Number of selection history entries below which any selection is tried.
MaxSelChoice == 2

\* Number of file loads, edits, merges and frame ends explored.
MaxLoadOps == 2

\* Number of naming calls and renames explored.
MaxNamingOps == 3

\* Number of events and frame ends explored around missing objects.
MaxMissingOps == 3

\* Number of image load requests and takes explored.
MaxImageOps == 4

\* Number of edits, saves, reloads and frame ends explored.
MaxSaveOps == 4

\* Number of dialog openings, picks, cancellations, image requests, frame
\* starts and frame ends explored.
MaxFileOps == 6

\* ------------------------------------------------------- program constants
MAX_UNDO_REDO_POOL == 10
MAX_UNDO_REDO_SELECTED == 20
\* NullableObjectId::NULL, the "no reference" identifier
NULL_OBJECT_ID == 65535
\* u16::MAX, where saturating_add stops
U16_MAX == 65535

\* Result of an allocation that ran into panic!()
PANIC == -1
\* Option<ObjectId>::None as current_object_id of a selector
NONE == -2

VARIABLES
    project,      \* DesignerApp.project : the EditorProject
    clipboard,    \* DesignerApp.clipboard : Option<Vec<Object>>, <<>> is None
    aborted,      \* TRUE once a panic!() unwound the process
    stage,        \* position inside DesignerApp::update of the current frame
    nops,         \* events and frame ends so far
    call,         \* the last EditorProject method call and the one before it
    names_undo,   \* names of the objects of each undo snapshot when it was committed
    names_redo,   \* the same for each redo snapshot
    names_expect, \* names the pool restored by the last undo/redo had as committed pool
    guard,        \* the locals of a running would_create_circular_reference
    merge,        \* the locals of the last import merge
    load,         \* the last file handed to handle_file_loaded and its outcome
    io            \* DesignerApp's file dialog reason, file channel and open
                  \* dialogs, and the record of image requests and deliveries

vars == <<project, clipboard, aborted, stage, nops, call,
          names_undo, names_redo, names_expect, guard, merge, load, io>>

\* ------------------------------------------------------------ object types
ObjectTypes ==
    {"WorkingSet", "DataMask", "AlarmMask", "Container", "SoftKeyMask", "Key",
     "Button", "InputBoolean", "InputString", "InputNumber", "InputList",
     "OutputString", "OutputNumber", "OutputList", "OutputLine",
     "OutputRectangle", "OutputEllipse", "OutputPolygon", "OutputMeter",
     "OutputLinearBarGraph", "OutputArchedBarGraph", "PictureGraphic",
     "NumberVariable", "StringVariable", "FontAttributes", "LineAttributes",
     "FillAttributes", "InputAttributes", "ObjectPointer", "Macro",
     "AuxiliaryFunctionType1", "AuxiliaryInputType1", "AuxiliaryFunctionType2",
     "AuxiliaryInputType2", "AuxiliaryControlDesignatorType2", "ColourMap",
     "GraphicsContext", "ColourPalette", "GraphicData",
     "WorkingSetSpecialControls", "ScaledGraphic", "WindowMask", "KeyGroup",
     "ExtendedInputAttributes", "ExternalObjectPointer",
     "ExternalObjectDefinition", "ExternalReferenceName",
     "ObjectLabelReferenceList", "Animation"}

\* EditorProject::object_id_range : <<first, last>> of the inclusive range
object_id_range(object_type) ==
    CASE object_type = "WorkingSet" -> <<0, 0>>
      [] object_type = "DataMask" -> <<1000, 1999>>
      [] object_type = "AlarmMask" -> <<2000, 2999>>
      [] object_type = "Container" -> <<3000, 3999>>
      [] object_type = "SoftKeyMask" -> <<4000, 4999>>
      [] object_type = "Key" -> <<5000, 5999>>
      [] object_type = "Button" -> <<6000, 6999>>
      [] object_type = "InputBoolean" -> <<7000, 7999>>
      [] object_type = "InputString" -> <<8000, 8999>>
      [] object_type = "InputNumber" -> <<9000, 9999>>
      [] object_type = "InputList" -> <<10000, 10999>>
      [] object_type = "OutputString" -> <<11000, 11999>>
      [] object_type = "OutputNumber" -> <<12000, 12999>>
      [] object_type = "OutputList" -> <<37000, 37999>>
      [] object_type = "OutputLine" -> <<13000, 13999>>
      [] object_type = "OutputRectangle" -> <<14000, 14999>>
      [] object_type = "OutputEllipse" -> <<15000, 15999>>
      [] object_type = "OutputPolygon" -> <<16000, 16999>>
      [] object_type = "OutputMeter" -> <<17000, 17999>>
      [] object_type = "OutputLinearBarGraph" -> <<18000, 18999>>
      [] object_type = "OutputArchedBarGraph" -> <<19000, 19999>>
      [] object_type = "PictureGraphic" -> <<20000, 20999>>
      [] object_type = "NumberVariable" -> <<21000, 21999>>
      [] object_type = "StringVariable" -> <<22000, 22999>>
      [] object_type = "FontAttributes" -> <<23000, 23999>>
      [] object_type = "LineAttributes" -> <<24000, 24999>>
      [] object_type = "FillAttributes" -> <<25000, 25999>>
      [] object_type = "InputAttributes" -> <<26000, 26999>>
      [] object_type = "ObjectPointer" -> <<27000, 27999>>
      [] object_type = "Macro" -> <<28000, 28999>>
      [] object_type = "AuxiliaryFunctionType1" -> <<29000, 29999>>
      [] object_type = "AuxiliaryInputType1" -> <<30000, 30999>>
      [] object_type = "AuxiliaryFunctionType2" -> <<31000, 31999>>
      [] object_type = "AuxiliaryInputType2" -> <<32000, 32999>>
      [] object_type = "AuxiliaryControlDesignatorType2" -> <<33000, 33999>>
      [] object_type = "ColourMap" -> <<34000, 34999>>
      [] object_type = "GraphicsContext" -> <<35000, 35999>>
      [] object_type = "ColourPalette" -> <<36000, 36999>>
      [] object_type = "GraphicData" -> <<37000, 37999>>
      [] object_type = "WorkingSetSpecialControls" -> <<38000, 38999>>
      [] object_type = "ScaledGraphic" -> <<39000, 39999>>
      [] object_type = "WindowMask" -> <<40000, 40999>>
      [] object_type = "KeyGroup" -> <<41000, 41999>>
      [] object_type = "ExtendedInputAttributes" -> <<42000, 42999>>
      [] object_type = "ExternalObjectPointer" -> <<43000, 43999>>
      [] object_type = "ExternalObjectDefinition" -> <<44000, 44999>>
      [] object_type = "ExternalReferenceName" -> <<45000, 45999>>
      [] object_type = "ObjectLabelReferenceList" -> <<46000, 46999>>
      [] object_type = "Animation" -> <<47000, 47999>>

\* ------------------------------------------------------------- object pool
\* An Object is [id, type, refs]; an ObjectPool is the Vec<Object> the code
\* sorts, appends to and compares with ==.

Object(id, object_type, refs) == [id |-> id, type |-> object_type, refs |-> refs]

Range(s) == {s[i] : i \in DOMAIN s}

PoolIds(pool) == {pool[i].id : i \in DOMAIN pool}

\* pool.object_by_id(id).is_some()
HasObject(pool, id) == \E i \in DOMAIN pool : pool[i].id = id

\* pool.object_by_id(id) when it is Some: the first object with that id
object_by_id(pool, id) ==
    pool[CHOOSE i \in DOMAIN pool :
            /\ pool[i].id = id
            /\ \A j \in DOMAIN pool : pool[j].id = id => i <= j]

\* pool.add(obj)
PoolAdd(pool, obj) == Append(pool, obj)

\* pool.remove(id)
PoolRemove(pool, id) == SelectSeq(pool, LAMBDA o : o.id # id)

RECURSIVE InsertById(_, _)
InsertById(sorted, obj) ==
    IF sorted = <<>> THEN <<obj>>
    ELSE IF sorted[Len(sorted)].id <= obj.id THEN Append(sorted, obj)
    ELSE Append(InsertById(SubSeq(sorted, 1, Len(sorted) - 1), obj),
                sorted[Len(sorted)])

RECURSIVE SortById(_)
\* objects_mut().sort_by(|a, b| id(a).cmp(id(b))) : a stable sort
SortById(pool) ==
    IF pool = <<>> THEN <<>>
    ELSE InsertById(SortById(SubSeq(pool, 1, Len(pool) - 1)), pool[Len(pool)])

\* pool.objects().iter().map(id).max().unwrap_or(0)
MaxId(pool) ==
    IF pool = <<>> THEN 0
    ELSE CHOOSE m \in PoolIds(pool) : \A x \in PoolIds(pool) : x <= m

\* u16::saturating_add(1)
SaturatingInc(x) == IF x >= U16_MAX THEN U16_MAX ELSE x + 1

\* ----------------------------------------------------------- EditorProject

\* ObjectPool::get_minimum_mask_sizes, a call into the object pool library,
\* the mask size of the pair: the objects of the model carry no dimensions,
\* so every pool has the same minimum
get_minimum_mask_sizes(pool) == 200

\* impl From<ObjectPool> for EditorProject
EditorProjectFrom(pool) ==
    [pool |-> pool,
     mut_pool |-> pool,
     undo_pool_history |-> <<>>,
     redo_pool_history |-> <<>>,
     selected_object |-> NULL_OBJECT_ID,
     mut_selected_object |-> NULL_OBJECT_ID,
     undo_selected_history |-> <<>>,
     redo_selected_history |-> <<>>,
     mask_size |-> get_minimum_mask_sizes(pool),
     object_info |-> <<>>,
     next_available_id |-> SaturatingInc(MaxId(pool)),
     image_load_request |-> <<>>]

\* object_info is a HashMap<ObjectId, ObjectInfo>, kept as a function from the
\* ids that have an entry with a name to that name.
InfoHas(info, id) == id \in DOMAIN info

InfoPut(info, id, name) ==
    [k \in (DOMAIN info) \cup {id} |-> IF k = id THEN name ELSE info[k]]

InfoDel(info, id) == [k \in (DOMAIN info) \ {id} |-> info[k]]

\* The name shown for an object: its stored name, else "Object <id> (<type>)"
NameOf(info, obj) ==
    IF InfoHas(info, obj.id) THEN info[obj.id]
    ELSE "Object " \o ToString(obj.id) \o " (" \o obj.type \o ")"

NameTable(pool, info) ==
    [i \in DOMAIN pool |-> <<pool[i].id, NameOf(info, pool[i])>>]

\* object_id_range, tabulated over the object types
RangeOf == [t \in ObjectTypes |-> object_id_range(t)]

RECURSIVE FirstFree(_, _, _)
\* the for loop of allocate_object_id_for_type
FirstFree(pool, id, last) ==
    IF id > last THEN PANIC
    ELSE IF ~HasObject(pool, id) THEN id
    ELSE FirstFree(pool, id + 1, last)

\* A variant that searches the staging pool instead of the committed pool
allocate_from_staging(self, object_type) ==
    FirstFree(self.mut_pool, RangeOf[object_type][1],
              RangeOf[object_type][2])

\* A variant that falls back to the first id of the range instead of
\* panicking
allocate_or_first(self, object_type) ==
    LET found == FirstFree(self.pool, RangeOf[object_type][1],
                           RangeOf[object_type][2])
    IN IF found = PANIC THEN RangeOf[object_type][1] ELSE found

\* EditorProject::allocate_object_id_for_type
allocate_object_id_for_type(self, object_type) ==
    FirstFree(self.pool, RangeOf[object_type][1],
              RangeOf[object_type][2])

\* A variant that drops the newest entries instead of the oldest
DrainNewest(history, max) ==
    IF Len(history) > max THEN SubSeq(history, 1, max) ELSE history

\* the drain(..len - max) that follows a push
Drain(history, max) ==
    IF Len(history) > max
    THEN SubSeq(history, Len(history) - max + 1, Len(history))
    ELSE history

\* EditorProject::update_next_available_id
update_next_available_id(self) ==
    [self EXCEPT !.next_available_id = SaturatingInc(MaxId(self.pool))]

\* A variant that pushes onto the undo history without draining it
update_pool_undrained(self) ==
    IF self.mut_pool # self.pool
    THEN [self |-> [self EXCEPT
                      !.redo_pool_history = <<>>,
                      !.undo_pool_history =
                          Append(self.undo_pool_history, self.pool),
                      !.pool = self.mut_pool],
          ret |-> TRUE]
    ELSE [self |-> self, ret |-> FALSE]

\* A variant that forgets to clear the redo history
update_pool_keeps_redo(self) ==
    IF self.mut_pool # self.pool
    THEN [self |-> [self EXCEPT
                      !.undo_pool_history =
                          Drain(Append(self.undo_pool_history, self.pool),
                                MAX_UNDO_REDO_POOL),
                      !.pool = self.mut_pool],
          ret |-> TRUE]
    ELSE [self |-> self, ret |-> FALSE]

\* A variant that records history without comparing the pools
update_pool_unconditional(self) ==
    [self |-> [self EXCEPT
                 !.redo_pool_history = <<>>,
                 !.undo_pool_history =
                     Drain(Append(self.undo_pool_history, self.pool),
                           MAX_UNDO_REDO_POOL),
                 !.pool = self.mut_pool],
     ret |-> TRUE]

\* EditorProject::update_pool : [self, ret]
update_pool(self) ==
    IF self.mut_pool # self.pool
    THEN [self |-> [self EXCEPT
                      !.redo_pool_history = <<>>,
                      !.undo_pool_history =
                          Drain(Append(self.undo_pool_history, self.pool),
                                MAX_UNDO_REDO_POOL),
                      !.pool = self.mut_pool],
          ret |-> TRUE]
    ELSE [self |-> self, ret |-> FALSE]

\* EditorProject::undo_available
undo_available(self) == self.undo_pool_history # <<>>

\* EditorProject::redo_available
redo_available(self) == self.redo_pool_history # <<>>

\* A variant that pushes the popped snapshot, not the committed pool, onto
\* the redo history
undo_pushes_popped(self) ==
    IF undo_available(self)
    THEN LET n == Len(self.undo_pool_history)
             popped == self.undo_pool_history[n]
         IN update_next_available_id(
              [self EXCEPT
                 !.undo_pool_history = SubSeq(self.undo_pool_history, 1, n - 1),
                 !.redo_pool_history = Append(self.redo_pool_history, popped),
                 !.pool = popped,
                 !.mut_pool = popped])
    ELSE self

\* A variant that replaces the committed pool only
undo_keeps_staging(self) ==
    IF undo_available(self)
    THEN LET n == Len(self.undo_pool_history)
             popped == self.undo_pool_history[n]
         IN update_next_available_id(
              [self EXCEPT
                 !.undo_pool_history = SubSeq(self.undo_pool_history, 1, n - 1),
                 !.redo_pool_history = Append(self.redo_pool_history, self.pool),
                 !.pool = popped])
    ELSE self

\* A variant that drops the staging selection along with the pool
undo_resets_selection(self) ==
    IF undo_available(self)
    THEN LET n == Len(self.undo_pool_history)
             popped == self.undo_pool_history[n]
         IN update_next_available_id(
              [self EXCEPT
                 !.undo_pool_history = SubSeq(self.undo_pool_history, 1, n - 1),
                 !.redo_pool_history = Append(self.redo_pool_history, self.pool),
                 !.pool = popped,
                 !.mut_pool = popped,
                 !.mut_selected_object = NULL_OBJECT_ID])
    ELSE self

\* EditorProject::undo
undo(self) ==
    IF undo_available(self)
    THEN LET n == Len(self.undo_pool_history)
             popped == self.undo_pool_history[n]
         IN update_next_available_id(
              [self EXCEPT
                 !.undo_pool_history = SubSeq(self.undo_pool_history, 1, n - 1),
                 !.redo_pool_history = Append(self.redo_pool_history, self.pool),
                 !.pool = popped,
                 !.mut_pool = popped])
    ELSE self

\* A variant that reads the newest redo snapshot without popping it
redo_keeps_top(self) ==
    IF redo_available(self)
    THEN LET n == Len(self.redo_pool_history)
             popped == self.redo_pool_history[n]
         IN update_next_available_id(
              [self EXCEPT
                 !.undo_pool_history = Append(self.undo_pool_history, self.pool),
                 !.pool = popped,
                 !.mut_pool = popped])
    ELSE self

\* EditorProject::redo
redo(self) ==
    IF redo_available(self)
    THEN LET n == Len(self.redo_pool_history)
             popped == self.redo_pool_history[n]
         IN update_next_available_id(
              [self EXCEPT
                 !.redo_pool_history = SubSeq(self.redo_pool_history, 1, n - 1),
                 !.undo_pool_history = Append(self.undo_pool_history, self.pool),
                 !.pool = popped,
                 !.mut_pool = popped])
    ELSE self

\* A variant that pushes without draining
update_selected_undrained(self) ==
    IF self.mut_selected_object # self.selected_object
    THEN [self |-> [self EXCEPT
                      !.redo_selected_history = <<>>,
                      !.undo_selected_history =
                          IF self.mut_selected_object # NULL_OBJECT_ID
                          THEN Append(self.undo_selected_history,
                                      self.selected_object)
                          ELSE self.undo_selected_history,
                      !.selected_object = self.mut_selected_object],
          ret |-> TRUE]
    ELSE [self |-> self, ret |-> FALSE]

\* EditorProject::update_selected : [self, ret]
update_selected(self) ==
    IF self.mut_selected_object # self.selected_object
    THEN [self |-> [self EXCEPT
                      !.redo_selected_history = <<>>,
                      !.undo_selected_history =
                          IF self.mut_selected_object # NULL_OBJECT_ID
                          THEN Drain(Append(self.undo_selected_history,
                                            self.selected_object),
                                     MAX_UNDO_REDO_SELECTED)
                          ELSE self.undo_selected_history,
                      !.selected_object = self.mut_selected_object],
          ret |-> TRUE]
    ELSE [self |-> self, ret |-> FALSE]

\* EditorProject::set_previous_selected
set_previous_selected(self) ==
    IF self.undo_selected_history # <<>>
    THEN LET n == Len(self.undo_selected_history)
             selected == self.undo_selected_history[n]
         IN [self EXCEPT
               !.undo_selected_history = SubSeq(self.undo_selected_history, 1, n - 1),
               !.redo_selected_history =
                   Append(self.redo_selected_history, self.selected_object),
               !.selected_object = selected,
               !.mut_selected_object = selected]
    ELSE self

\* EditorProject::set_next_selected
set_next_selected(self) ==
    IF self.redo_selected_history # <<>>
    THEN LET n == Len(self.redo_selected_history)
             selected == self.redo_selected_history[n]
         IN [self EXCEPT
               !.redo_selected_history = SubSeq(self.redo_selected_history, 1, n - 1),
               !.undo_selected_history =
                   Append(self.undo_selected_history, self.selected_object),
               !.selected_object = selected,
               !.mut_selected_object = selected]
    ELSE self

\* A variant that keeps a request that is already waiting
request_image_load_if_empty(self, object_id) ==
    IF self.image_load_request = <<>>
    THEN [self EXCEPT !.image_load_request = <<object_id>>]
    ELSE self

\* EditorProject::request_image_load
request_image_load(self, object_id) ==
    [self EXCEPT !.image_load_request = <<object_id>>]

\* EditorProject::take_image_load_request : [self, ret], ret being the
\* Option<ObjectId> returned
take_image_load_request(self) ==
    [self |-> [self EXCEPT !.image_load_request = <<>>],
     ret |-> self.image_load_request]

\* A variant that falls back to the first object of the pool when the
\* selection resolves to no object
copy_selected_objects_exact_or_first(self) ==
    IF /\ self.selected_object # NULL_OBJECT_ID
       /\ HasObject(self.pool, self.selected_object)
    THEN <<object_by_id(self.pool, self.selected_object)>>
    ELSE IF self.pool # <<>> THEN <<self.pool[1]>> ELSE <<>>

\* EditorProject::copy_selected_objects_exact : the Vec<Object> returned
copy_selected_objects_exact(self) ==
    IF /\ self.selected_object # NULL_OBJECT_ID
       /\ HasObject(self.pool, self.selected_object)
    THEN <<object_by_id(self.pool, self.selected_object)>>
    ELSE <<>>

\* A variant whose match has no arm that sets the id of the clone
copy_selected_objects_as_new_same_id(self) ==
    IF /\ self.selected_object # NULL_OBJECT_ID
       /\ HasObject(self.pool, self.selected_object)
    THEN LET obj == object_by_id(self.pool, self.selected_object)
             new_id == allocate_object_id_for_type(self, obj.type)
         IN IF new_id = PANIC
            THEN [panic |-> TRUE, objects |-> <<>>]
            ELSE [panic |-> FALSE, objects |-> <<obj>>]
    ELSE [panic |-> FALSE, objects |-> <<>>]

\* EditorProject::copy_selected_objects_as_new : the Vec<Object> returned,
\* and whether the allocation panicked instead
copy_selected_objects_as_new(self) ==
    IF /\ self.selected_object # NULL_OBJECT_ID
       /\ HasObject(self.pool, self.selected_object)
    THEN LET obj == object_by_id(self.pool, self.selected_object)
             new_id == allocate_object_id_for_type(self, obj.type)
         IN IF new_id = PANIC
            THEN [panic |-> TRUE, objects |-> <<>>]
            ELSE [panic |-> FALSE, objects |-> <<[obj EXCEPT !.id = new_id]>>]
    ELSE [panic |-> FALSE, objects |-> <<>>]

RECURSIVE AddAll(_, _)
\* for obj in objects { pool.add(obj) }
AddAll(pool, objects) ==
    IF objects = <<>> THEN pool
    ELSE AddAll(PoolAdd(pool, Head(objects)), Tail(objects))

\* A variant that adds the objects and leaves the commit to the frame end
paste_objects_uncommitted(self, objects) ==
    LET added == [self EXCEPT !.mut_pool = AddAll(self.mut_pool, objects)]
    IN [self |-> added, ret |-> FALSE, pre |-> added]

\* EditorProject::paste_objects : [self, ret, pre], pre being self at the call
\* of update_pool
paste_objects(self, objects) ==
    LET added == [self EXCEPT !.mut_pool = AddAll(self.mut_pool, objects)]
        r == update_pool(added)
    IN [self |-> r.self, ret |-> r.ret, pre |-> added]

\* EditorProject::update_object_id_for_info
update_object_id_for_info(self, old_id, new_id) ==
    IF InfoHas(self.object_info, old_id)
    THEN [self EXCEPT !.object_info =
              InfoPut(InfoDel(self.object_info, old_id), new_id,
                      self.object_info[old_id])]
    ELSE self

\* EditorProject::finish_renaming_object(true) for renaming_object = (_, id, name)
finish_renaming_object(self, id, name) ==
    [self EXCEPT !.object_info = InfoPut(self.object_info, id, name)]

\* ------------------------------------------ would_create_circular_reference
\* obj.referenced_objects() : the ids the object's reference fields hold
referenced_objects(obj) ==
    SelectSeq(obj.refs, LAMBDA ref_id : ref_id # NULL_OBJECT_ID)

\* The locals of would_create_circular_reference(pool, parent_id, child_id):
\* pc is "idle" before the call, "loop" inside the while loop and "done" at
\* a return; expanded lists the ids whose children were pushed, iterations
\* counts the passes through the loop body.
GuardCall(pool, parent_id, child_id) ==
    [pool |-> pool, parent_id |-> parent_id, child_id |-> child_id,
     stack |-> <<>>, visited |-> {}, expanded |-> <<>>, iterations |-> 0,
     pc |-> "idle", result |-> FALSE]

\* if parent_id == child_id { return true }; else visited and stack are set up
GuardEnter(g) ==
    IF g.parent_id = g.child_id
    THEN [g EXCEPT !.pc = "done", !.result = TRUE]
    ELSE [g EXCEPT !.pc = "loop", !.stack = <<g.child_id>>]

\* A variant of the loop body that follows the first reference of an object
\* only
GuardIterateFirstChild(g) ==
    IF g.stack = <<>>
    THEN [g EXCEPT !.pc = "done", !.result = FALSE]
    ELSE LET current_id == g.stack[Len(g.stack)]
             popped == SubSeq(g.stack, 1, Len(g.stack) - 1)
         IN IF current_id \in g.visited
            THEN [g EXCEPT !.stack = popped, !.iterations = @ + 1]
            ELSE IF current_id = g.parent_id
            THEN [g EXCEPT !.stack = popped, !.iterations = @ + 1,
                           !.visited = @ \cup {current_id},
                           !.pc = "done", !.result = TRUE]
            ELSE [g EXCEPT
                    !.iterations = @ + 1,
                    !.visited = @ \cup {current_id},
                    !.expanded = Append(@, current_id),
                    !.stack =
                        IF /\ HasObject(g.pool, current_id)
                           /\ referenced_objects(
                                  object_by_id(g.pool, current_id)) # <<>>
                        THEN Append(popped,
                                    Head(referenced_objects(
                                           object_by_id(g.pool, current_id))))
                        ELSE popped]

\* A variant of the loop body that does not consult the visited set
GuardIterateRevisits(g) ==
    IF g.stack = <<>>
    THEN [g EXCEPT !.pc = "done", !.result = FALSE]
    ELSE LET current_id == g.stack[Len(g.stack)]
             popped == SubSeq(g.stack, 1, Len(g.stack) - 1)
         IN IF current_id = g.parent_id
            THEN [g EXCEPT !.stack = popped, !.iterations = @ + 1,
                           !.pc = "done", !.result = TRUE]
            ELSE [g EXCEPT
                    !.iterations = @ + 1,
                    !.visited = @ \cup {current_id},
                    !.expanded = Append(@, current_id),
                    !.stack =
                        IF HasObject(g.pool, current_id)
                        THEN popped \o referenced_objects(
                                           object_by_id(g.pool, current_id))
                        ELSE popped]

\* One evaluation of `while let Some(current_id) = stack.pop()` and of the
\* loop body; the loop is left with `false` when the stack is empty
GuardIterate(g) ==
    IF g.stack = <<>>
    THEN [g EXCEPT !.pc = "done", !.result = FALSE]
    ELSE LET current_id == g.stack[Len(g.stack)]
             popped == SubSeq(g.stack, 1, Len(g.stack) - 1)
         IN IF current_id \in g.visited
            THEN [g EXCEPT !.stack = popped, !.iterations = @ + 1]
            ELSE IF current_id = g.parent_id
            THEN [g EXCEPT !.stack = popped, !.iterations = @ + 1,
                           !.visited = @ \cup {current_id},
                           !.pc = "done", !.result = TRUE]
            ELSE [g EXCEPT
                    !.iterations = @ + 1,
                    !.visited = @ \cup {current_id},
                    !.expanded = Append(@, current_id),
                    !.stack =
                        IF HasObject(g.pool, current_id)
                        THEN popped \o referenced_objects(
                                           object_by_id(g.pool, current_id))
                        ELSE popped]

RECURSIVE GuardRun(_)
\* The call run to its return
GuardRun(g) ==
    IF g.pc = "done" THEN g
    ELSE IF g.pc = "idle" THEN GuardRun(GuardEnter(g))
    ELSE GuardRun(GuardIterate(g))

\* would_create_circular_reference(pool, parent_id, child_id)
would_create_circular_reference(pool, parent_id, child_id) ==
    GuardRun(GuardCall(pool, parent_id, child_id)).result

\* ------------------------------------------------------------ import merge
RemappedTypes ==
    {"WorkingSet", "DataMask", "AlarmMask", "Container", "SoftKeyMask", "Key",
     "Button"}

\* id_map.get(&id) applied to one reference field
Remap(id_map, ref_id) ==
    IF ref_id \in DOMAIN id_map THEN id_map[ref_id] ELSE ref_id

\* remap_object_references(obj, id_map) : the match has arms for seven
\* object types and `_ => {}` for the others
remap_object_references(obj, id_map) ==
    IF obj.type \in RemappedTypes
    THEN [obj EXCEPT !.refs = [i \in DOMAIN obj.refs |->
                                  Remap(id_map, obj.refs[i])]]
    ELSE obj

RECURSIVE collect_to_import(_, _, _)
\* "Collect all selected objects and their dependencies": the while loop
\* over the queue, to_import being the set built so far
collect_to_import(import_pool, queue, to_import) ==
    IF queue = <<>> THEN to_import
    ELSE LET id == Head(queue)
         IN IF id \in to_import
            THEN collect_to_import(import_pool, Tail(queue), to_import)
            ELSE collect_to_import(
                   import_pool,
                   IF HasObject(import_pool, id)
                   THEN Tail(queue) \o referenced_objects(
                                          object_by_id(import_pool, id))
                   ELSE Tail(queue),
                   to_import \cup {id})

\* A variant without the retain: the working sets stay in to_import
retain_everything(import_pool, to_import) == to_import

\* to_import.retain(..) : working sets are dropped, ids without an object in
\* the import pool stay
retain_importable(import_pool, to_import) ==
    {id \in to_import :
        HasObject(import_pool, id) =>
            object_by_id(import_pool, id).type # "WorkingSet"}

RECURSIVE FirstUnused(_, _, _, _)
\* `for id in range.clone()` of the import: the first id that neither the
\* committed pool nor id_map.values() holds, PANIC when there is none
FirstUnused(pool, already_assigned, id, last) ==
    IF id > last THEN PANIC
    ELSE IF ~HasObject(pool, id) /\ id \notin already_assigned THEN id
    ELSE FirstUnused(pool, already_assigned, id + 1, last)

RECURSIVE assign_ids_ignoring_batch(_, _, _, _)
RECURSIVE assign_ids(_, _, _, _)
\* A variant that looks at the committed pool only
assign_ids_ignoring_batch(pool, import_pool, order, id_map) ==
    IF order = <<>> THEN [panic |-> FALSE, id_map |-> id_map]
    ELSE LET old_id == Head(order)
         IN IF ~HasObject(import_pool, old_id)
            THEN assign_ids_ignoring_batch(pool, import_pool, Tail(order), id_map)
            ELSE LET range == object_id_range(
                                  object_by_id(import_pool, old_id).type)
                     found == FirstUnused(pool, {}, range[1], range[2])
                 IN IF found = PANIC
                    THEN [panic |-> TRUE, id_map |-> id_map]
                    ELSE assign_ids_ignoring_batch(
                           pool, import_pool, Tail(order),
                           InfoPut(id_map, old_id, found))

\* "1. Remap IDs for all imported objects using allowed range": the loop
\* over to_import in the iteration order `order` of the HashSet
assign_ids(pool, import_pool, order, id_map) ==
    IF order = <<>> THEN [panic |-> FALSE, id_map |-> id_map]
    ELSE LET old_id == Head(order)
         IN IF ~HasObject(import_pool, old_id)
            THEN assign_ids(pool, import_pool, Tail(order), id_map)
            ELSE LET range == object_id_range(
                                  object_by_id(import_pool, old_id).type)
                     already_assigned == {id_map[k] : k \in DOMAIN id_map}
                     found == FirstUnused(pool, already_assigned,
                                          range[1], range[2])
                 IN IF found = PANIC
                    THEN [panic |-> TRUE, id_map |-> id_map]
                    ELSE assign_ids(pool, import_pool, Tail(order),
                                    InfoPut(id_map, old_id, found))

RECURSIVE clone_and_remap(_, _, _)
\* "2. Clone and remap all imported objects", in the same iteration order
clone_and_remap(import_pool, order, id_map) ==
    IF order = <<>> THEN <<>>
    ELSE LET old_id == Head(order)
             rest == clone_and_remap(import_pool, Tail(order), id_map)
         IN IF HasObject(import_pool, old_id)
            THEN <<remap_object_references(
                     [object_by_id(import_pool, old_id) EXCEPT
                        !.id = id_map[old_id]],
                     id_map)>> \o rest
            ELSE rest

\* -------------------------------------------------- DesignerApp::update
\* One frame runs the event sites below in this order, each at most once,
\* and ends with update_pool() and update_selected().
StageCreate == 1
StageUndo == 2
StageRedo == 3
StageCopyExact == 4
StageCopyAsNew == 5
StagePaste == 6
StageNavigate == 7
StageObjectList == 8
StageParameters == 9

\* Inputs of the user events
CreateTypes == {"DataMask", "Button"}
Names == {"a", "b"}
IdChoices == {1001, 6001}

\* default_object(object_type, pool) with the allocated id written into it
default_object(object_type, id) == Object(id, object_type, <<>>)

WorkingSet0 == Object(0, "WorkingSet", <<1000>>)
InitPools ==
    {<<WorkingSet0, Object(1000, "DataMask", <<>>)>>,
     <<WorkingSet0, Object(1000, "DataMask", <<6000>>),
       Object(6000, "Button", <<>>)>>}

\* The record of a method call: the project before and after it, what it
\* returned, and the call before it with the project that one started from
Called(op, pre, post, ret) ==
    [op |-> op, pre |-> pre, post |-> post, ret |-> ret,
     prev_op |-> call.op, prev_pre |-> call.pre]

\* The bookkeeping around a freshly made EditorProject
StartedWith(editor_project) ==
    /\ project = editor_project
    /\ clipboard = <<>>
    /\ aborted = FALSE
    /\ stage = 0
    /\ nops = 0
    /\ call = [op |-> "from", pre |-> project, post |-> project, ret |-> FALSE,
               prev_op |-> "none", prev_pre |-> project]
    /\ names_undo = <<>>
    /\ names_redo = <<>>
    /\ names_expect = <<>>

\* The document and the bookkeeping right after EditorProject::from(pool)
Started(pool) == StartedWith(EditorProjectFrom(pool))

\* No cycle guard is running
NoGuard == GuardCall(<<>>, 0, 0)

\* The bytes of a raw pool file: how many they are, and the pool
\* ObjectPool::from_iop makes of them
IopBytes(len, objects) == [len |-> len, objects |-> objects]

\* ObjectPool::from_iop, a call into the object pool library: it returns a
\* pool for every input, an empty one for bytes that hold no object
from_iop(data) == data.objects

\* ProjectFile; Option<T> is the sequence of at most one T
ProjectFileOf(object_pool_data, object_metadata, mask_size, last_selected) ==
    [object_pool_data |-> object_pool_data,
     object_metadata |-> object_metadata,
     settings |-> [mask_size |-> mask_size, last_selected |-> last_selected]]

\* The content of a picked file: what from_iop makes of the bytes, and the
\* ProjectFile serde_json::from_slice makes of them, <<>> when it fails
FileContent(iop, json) == [iop |-> iop, json |-> json]

\* ProjectFile::from_bytes : <<>> is Err
from_bytes(bytes) == bytes.json

\* ProjectFile::to_bytes, serde_json::to_vec_pretty: JSON text, which holds
\* no object for from_iop and which from_bytes parses back
to_bytes(project_file) == FileContent(IopBytes(200, <<>>), <<project_file>>)

RECURSIVE IopLen(_)
\* The number of bytes of ObjectPool::as_iop, a call into the object pool
\* library: an object takes its id, its type and at least two more bytes,
\* and two bytes for each reference
IopLen(pool) ==
    IF pool = <<>> THEN 0
    ELSE 5 + 2 * Len(Head(pool).refs) + IopLen(Tail(pool))

\* ObjectPool::as_iop, which from_iop reads back
as_iop(pool) == IopBytes(IopLen(pool), pool)

\* A variant of ProjectFile::new that writes no object metadata
ProjectFileNewWithoutMetadata(pool, object_info, mask_size, selected) ==
    ProjectFileOf(as_iop(pool), <<>>, mask_size,
                  IF selected = NULL_OBJECT_ID THEN <<>> ELSE <<selected>>)

\* ProjectFile::new : one metadata entry per object_info entry, keyed by
\* the value of the id; selected is an Option<ObjectId>, None being NULL
ProjectFileNew(pool, object_info, mask_size, selected) ==
    ProjectFileOf(as_iop(pool),
                  [id \in DOMAIN object_info |-> [name |-> <<object_info[id]>>]],
                  mask_size,
                  IF selected = NULL_OBJECT_ID THEN <<>> ELSE <<selected>>)

\* The selection save_project writes: the staging selection if it is one,
\* else the committed selection
SavedSelection(self) ==
    IF self.mut_selected_object # NULL_OBJECT_ID
    THEN self.mut_selected_object
    ELSE self.selected_object

\* A variant that serializes the staging pool
save_project_of_staging(self) ==
    to_bytes(ProjectFileNew(self.mut_pool, self.object_info, self.mask_size,
                            SavedSelection(self)))

\* EditorProject::save_project : the bytes of the Ok value
save_project(self) ==
    to_bytes(ProjectFileNew(self.pool, self.object_info, self.mask_size,
                            SavedSelection(self)))

\* No file has been handed to handle_file_loaded
NoLoad ==
    [reason |-> "None", content |-> FileContent(IopBytes(0, <<>>), <<>>),
     apply_smart_naming_on_import |-> FALSE, ok |-> FALSE]

\* FileDialogReason; id is NULL_OBJECT_ID for the reasons without an object
FileDialogReason(kind, id) == [kind |-> kind, id |-> id]

\* DesignerApp as constructed: no reason pending, an empty channel, no
\* dialog open, no import tree; no image request made, no take, no receive
NoIo ==
    [file_dialog_reason |-> <<>>, file_channel |-> <<>>, dialogs |-> <<>>,
     import_tree_selection |-> <<>>,
     requested |-> <<>>, taken |-> <<>>, received |-> <<>>, saved |-> <<>>]

\* No import merge has run
NoMerge ==
    [import_pool |-> <<>>, selected |-> {}, to_import |-> <<>>,
     id_map |-> <<>>, imported_objects |-> <<>>, target |-> <<>>,
     target_info |-> <<>>]

Init ==
    /\ \E pool \in InitPools : Started(pool)
    /\ guard = NoGuard
    /\ merge = NoMerge
    /\ load = NoLoad
    /\ io = NoIo

\* An event site of the frame is reached once, after the sites before it
At(site) ==
    /\ ~aborted
    /\ stage < site
    /\ stage' = site

Budget ==
    /\ nops < MaxOps
    /\ nops' = nops + 1
    /\ UNCHANGED <<guard, merge, load, io>>

NamesNow(self) == NameTable(self.pool, self.object_info)

\* Bookkeeping of the names each snapshot had while it was the committed pool
NamesOnCommit(pre, changed) ==
    IF changed
    THEN /\ names_undo' = Drain(Append(names_undo, NamesNow(pre)), MAX_UNDO_REDO_POOL)
         /\ names_redo' = <<>>
         /\ UNCHANGED names_expect
    ELSE UNCHANGED <<names_undo, names_redo, names_expect>>

NamesOnUndo(pre) ==
    IF undo_available(pre)
    THEN /\ names_expect' = names_undo[Len(names_undo)]
         /\ names_undo' = SubSeq(names_undo, 1, Len(names_undo) - 1)
         /\ names_redo' = Append(names_redo, NamesNow(pre))
    ELSE UNCHANGED <<names_undo, names_redo, names_expect>>

NamesOnRedo(pre) ==
    IF redo_available(pre)
    THEN /\ names_expect' = names_redo[Len(names_redo)]
         /\ names_redo' = SubSeq(names_redo, 1, Len(names_redo) - 1)
         /\ names_undo' = Append(names_undo, NamesNow(pre))
    ELSE UNCHANGED <<names_undo, names_redo, names_expect>>

\* main.rs, "Create" of the new-object dialog
DoCreateObject(object_type, name) ==
    /\ At(StageCreate)
    /\ Len(project.mut_pool) < MaxObjects
    /\ LET id == allocate_object_id_for_type(project, object_type)
       IN IF id = PANIC
          THEN /\ aborted' = TRUE
               /\ UNCHANGED project
          ELSE /\ aborted' = FALSE
               /\ project' =
                    [project EXCEPT
                       !.mut_pool = SortById(PoolAdd(project.mut_pool,
                                                     default_object(object_type, id))),
                       !.object_info = InfoPut(project.object_info, id, name),
                       !.mut_selected_object = id]
    /\ call' = Called("allocate_object_id_for_type", project, project', FALSE)
    /\ UNCHANGED <<clipboard, names_undo, names_redo, names_expect>>

\* main.rs, undo button / Ctrl+Z
DoUndo ==
    /\ At(StageUndo)
    /\ project' = undo(project)
    /\ call' = Called("undo", project, project', FALSE)
    /\ NamesOnUndo(project)
    /\ UNCHANGED <<clipboard, aborted>>

\* main.rs, redo button / Ctrl+Y
DoRedo ==
    /\ At(StageRedo)
    /\ project' = redo(project)
    /\ call' = Called("redo", project, project', FALSE)
    /\ NamesOnRedo(project)
    /\ UNCHANGED <<clipboard, aborted>>

\* main.rs, "Copy (Exact)" / Ctrl+C
DoCopyExact ==
    /\ At(StageCopyExact)
    /\ LET objs == copy_selected_objects_exact(project)
       IN clipboard' = IF objs # <<>> THEN objs ELSE clipboard
    /\ call' = Called("copy_selected_objects_exact", project, project, FALSE)
    /\ UNCHANGED <<project, aborted, names_undo, names_redo, names_expect>>

\* main.rs, "Copy as New" / Ctrl+Shift+C
DoCopyAsNew ==
    /\ At(StageCopyAsNew)
    /\ LET r == copy_selected_objects_as_new(project)
       IN IF r.panic
          THEN /\ aborted' = TRUE
               /\ UNCHANGED clipboard
          ELSE /\ aborted' = FALSE
               /\ clipboard' = IF r.objects # <<>> THEN r.objects ELSE clipboard
    /\ call' = Called("copy_selected_objects_as_new", project, project, FALSE)
    /\ UNCHANGED <<project, names_undo, names_redo, names_expect>>

\* main.rs, "Paste" / Ctrl+V
DoPaste ==
    /\ At(StagePaste)
    /\ clipboard # <<>>
    /\ Len(project.mut_pool) + Len(clipboard) <= MaxObjects
    /\ LET r == paste_objects(project, clipboard)
       IN /\ project' = r.self
          /\ call' = Called("update_pool", r.pre, r.self, r.ret)
          /\ NamesOnCommit(r.pre, r.ret)
    /\ UNCHANGED <<clipboard, aborted>>

\* main.rs, mouse button Extra1
DoSetPrevious ==
    /\ At(StageNavigate)
    /\ project' = set_previous_selected(project)
    /\ call' = Called("set_previous_selected", project, project', FALSE)
    /\ UNCHANGED <<clipboard, aborted, names_undo, names_redo, names_expect>>

\* main.rs, mouse button Extra2
DoSetNext ==
    /\ At(StageNavigate)
    /\ project' = set_next_selected(project)
    /\ call' = Called("set_next_selected", project, project', FALSE)
    /\ UNCHANGED <<clipboard, aborted, names_undo, names_redo, names_expect>>

\* render_selectable_object, click on the row of object id
DoSelect(id) ==
    /\ At(StageObjectList)
    /\ HasObject(project.pool, id)
    /\ project' = [project EXCEPT !.mut_selected_object = id]
    /\ call' = Called("select", project, project', FALSE)
    /\ UNCHANGED <<clipboard, aborted, names_undo, names_redo, names_expect>>

\* render_selectable_object, "Delete" of the context menu of object id
DoDelete(id) ==
    /\ At(StageObjectList)
    /\ HasObject(project.pool, id)
    /\ project' = [project EXCEPT !.mut_pool = PoolRemove(project.mut_pool, id)]
    /\ call' = Called("remove", project, project', FALSE)
    /\ UNCHANGED <<clipboard, aborted, names_undo, names_redo, names_expect>>

\* render_selectable_object, the rename text field of object id losing focus
DoRename(id, name) ==
    /\ At(StageObjectList)
    /\ HasObject(project.pool, id)
    /\ project' = finish_renaming_object(project, id, name)
    /\ call' = Called("finish_renaming_object", project, project', FALSE)
    /\ UNCHANGED <<clipboard, aborted, names_undo, names_redo, names_expect>>

\* The staging pool with the id of its first object `id` set to new_id
SetObjectId(pool, id, new_id) ==
    LET at == CHOOSE i \in DOMAIN pool :
                 /\ pool[i].id = id
                 /\ \A j \in DOMAIN pool : pool[j].id = id => i <= j
    IN [pool EXCEPT ![at].id = new_id]

\* render_object_id for the selected object, the drag value set to new_id
render_object_id(self, new_id) ==
    LET id == self.selected_object
        conflict == HasObject(self.pool, new_id) /\ new_id # id
    IN IF ~conflict /\ new_id # id
       THEN [update_object_id_for_info(self, id, new_id) EXCEPT
               !.mut_pool = SetObjectId(self.mut_pool, id, new_id),
               !.mut_selected_object = new_id]
       ELSE self

\* main.rs, parameters panel of the selected object
DoChangeId(new_id) ==
    /\ At(StageParameters)
    /\ project.selected_object # NULL_OBJECT_ID
    /\ HasObject(project.mut_pool, project.selected_object)
    /\ project' = render_object_id(project, new_id)
    /\ call' = Called("render_object_id", project, project', FALSE)
    /\ UNCHANGED <<clipboard, aborted, names_undo, names_redo, names_expect>>

\* pool.objects_by_types(types)
objects_by_types(pool, types) == SelectSeq(pool, LAMBDA o : o.type \in types)

\* `would_be_circular` of the three selectors for one potential child
would_be_circular(pool, current_object_id, child_id) ==
    IF current_object_id # NONE
    THEN would_create_circular_reference(pool, current_object_id, child_id)
    ELSE FALSE

\* A variant that offers every potential child enabled
render_object_id_selector_unguarded(self, object_id, allowed_child_objects, current_object_id, clicked) ==
    IF HasObject(objects_by_types(self.pool, allowed_child_objects), clicked)
    THEN clicked
    ELSE object_id

\* render_object_id_selector with a click on the entry of `clicked`: the
\* value of *object_id afterwards
render_object_id_selector(self, object_id, allowed_child_objects, current_object_id, clicked) ==
    IF /\ HasObject(objects_by_types(self.pool, allowed_child_objects), clicked)
       /\ ~would_be_circular(self.pool, current_object_id, clicked)
    THEN clicked
    ELSE object_id

\* render_nullable_object_id_selector with a click on "None" (clicked is
\* NULL) or on the entry of `clicked`: the value of *object_id afterwards
render_nullable_object_id_selector(self, object_id, allowed_child_objects, current_object_id, clicked) ==
    IF clicked = NULL_OBJECT_ID THEN NULL_OBJECT_ID
    ELSE IF /\ HasObject(objects_by_types(self.pool, allowed_child_objects),
                         clicked)
            /\ ~would_be_circular(self.pool, current_object_id, clicked)
    THEN clicked
    ELSE object_id

\* render_add_object_id with a click on "None" or on the entry of
\* `clicked`: the pair (Option<ObjectId>, bool) returned, None being NULL
render_add_object_id(self, allowed_child_objects, allow_none, current_object_id, clicked) ==
    IF clicked = NULL_OBJECT_ID
    THEN [id |-> NULL_OBJECT_ID, success |-> allow_none]
    ELSE IF /\ HasObject(objects_by_types(self.pool, allowed_child_objects),
                         clicked)
            /\ ~would_be_circular(self.pool, current_object_id, clicked)
    THEN [id |-> clicked, success |-> TRUE]
    ELSE [id |-> NULL_OBJECT_ID, success |-> FALSE]

\* The staging pool with the reference fields of its first object `id`
\* set to refs
SetObjectRefs(pool, id, refs) ==
    LET at == CHOOSE i \in DOMAIN pool :
                 /\ pool[i].id = id
                 /\ \A j \in DOMAIN pool : pool[j].id = id => i <= j
    IN [pool EXCEPT ![at].refs = refs]

\* Container::get_allowed_child_refs, the part of it the model uses
ContainerChildren == {"Container", "Button"}

\* &[ObjectType::PictureGraphic] of the fill pattern selector
FillPatternChildren == {"PictureGraphic"}

\* The object the parameters panel shows: object_mut_by_id(selected) of the
\* staging pool
Configured(self) == object_by_id(self.mut_pool, self.selected_object)

ParametersShown(object_type) ==
    /\ At(StageParameters)
    /\ project.selected_object # NULL_OBJECT_ID
    /\ HasObject(project.mut_pool, project.selected_object)
    /\ Configured(project).type = object_type
    /\ UNCHANGED <<clipboard, aborted, names_undo, names_redo, names_expect>>

\* The guard as the selector evaluated it for the entry clicked
Guarded(current_object_id, clicked) ==
    guard' = GuardRun(GuardCall(project.pool, current_object_id, clicked))

\* Container::render_parameters, render_object_references_list: the
\* selector of entry idx, clicked on a potential child
DoSetRef(idx, clicked) ==
    /\ ParametersShown("Container")
    /\ idx \in DOMAIN Configured(project).refs
    /\ HasObject(objects_by_types(project.pool, ContainerChildren), clicked)
    /\ LET obj == Configured(project)
           object_id == render_object_id_selector(
                            project, obj.refs[idx], ContainerChildren,
                            obj.id, clicked)
       IN /\ project' = [project EXCEPT !.mut_pool =
                 SetObjectRefs(project.mut_pool, obj.id,
                               [obj.refs EXCEPT ![idx] = object_id])]
          /\ Guarded(obj.id, clicked)
    /\ call' = Called("render_object_id_selector", project, project', FALSE)

\* Container::render_parameters, render_object_references_list: "Add
\* object", clicked on a potential child
DoAddRef(clicked) ==
    /\ ParametersShown("Container")
    /\ Len(Configured(project).refs) < MaxObjects
    /\ HasObject(objects_by_types(project.pool, ContainerChildren), clicked)
    /\ LET obj == Configured(project)
           r == render_add_object_id(project, ContainerChildren, FALSE,
                                     obj.id, clicked)
       IN /\ project' =
                 IF r.id # NULL_OBJECT_ID
                 THEN [project EXCEPT !.mut_pool =
                         SetObjectRefs(project.mut_pool, obj.id,
                                       Append(obj.refs, r.id))]
                 ELSE project
          /\ Guarded(obj.id, clicked)
    /\ call' = Called("render_add_object_id", project, project', FALSE)

\* FillAttributes::render_parameters: the fill pattern selector, clicked
\* on "None" or on a potential child
DoSetFillPattern(clicked) ==
    /\ ParametersShown("FillAttributes")
    /\ \/ clicked = NULL_OBJECT_ID
       \/ HasObject(objects_by_types(project.pool, FillPatternChildren), clicked)
    /\ LET obj == Configured(project)
           fill_pattern == render_nullable_object_id_selector(
                               project, obj.refs[1], FillPatternChildren,
                               obj.id, clicked)
       IN /\ project' = [project EXCEPT !.mut_pool =
                 SetObjectRefs(project.mut_pool, obj.id, <<fill_pattern>>)]
          /\ IF clicked = NULL_OBJECT_ID
             THEN guard' = NoGuard
             ELSE Guarded(obj.id, clicked)
    /\ call' = Called("render_nullable_object_id_selector", project, project',
                      FALSE)

\* EditorProject::get_all_object_names : the names of the objects of the
\* committed pool
get_all_object_names(self) ==
    {NameOf(self.object_info, self.pool[i]) : i \in DOMAIN self.pool}

RECURSIVE SmartNameFrom(_, _, _)
SmartNameFrom(object_type, existing_names, n) ==
    IF (object_type \o " " \o ToString(n)) \notin existing_names
    THEN object_type \o " " \o ToString(n)
    ELSE SmartNameFrom(object_type, existing_names, n + 1)

\* smart_naming::generate_smart_default_name : the type-prefixed name with
\* the lowest numeric suffix that existing_names does not hold
generate_smart_default_name(object_type, existing_names) ==
    SmartNameFrom(object_type, existing_names, 1)

\* EditorProject::generate_smart_name_for_new_object
generate_smart_name_for_new_object(self, object_type) ==
    generate_smart_default_name(object_type, get_all_object_names(self))

RECURSIVE NameAllFrom(_, _, _)
\* "Generate names for remaining objects": the loop of
\* apply_smart_naming_to_all_objects over the objects of the committed pool
NameAllFrom(object_info, objects, existing_names) ==
    IF objects = <<>> THEN object_info
    ELSE LET object == Head(objects)
             new_name == generate_smart_default_name(object.type, existing_names)
         IN NameAllFrom(InfoPut(object_info, object.id, new_name),
                        Tail(objects), existing_names \cup {new_name})

\* EditorProject::apply_smart_naming_to_all_objects
apply_smart_naming_to_all_objects(self) ==
    LET existing_names ==
            {self.object_info[id] :
                id \in {k \in DOMAIN self.object_info : HasObject(self.pool, k)}}
    IN [self EXCEPT !.object_info =
           NameAllFrom(self.object_info, self.pool, existing_names)]

\* A variant without the early return for an object that has a name
apply_smart_naming_to_object_overwriting(self, object) ==
    LET existing_names ==
            {NameOf(self.object_info, self.pool[i]) :
                i \in {j \in DOMAIN self.pool :
                         \/ InfoHas(self.object_info, self.pool[j].id)
                         \/ self.pool[j].id # object.id}}
        new_name == generate_smart_default_name(object.type, existing_names)
    IN [self EXCEPT !.object_info = InfoPut(self.object_info, object.id, new_name)]

\* EditorProject::apply_smart_naming_to_object
apply_smart_naming_to_object(self, object) ==
    IF InfoHas(self.object_info, object.id) THEN self
    ELSE LET existing_names ==
                 {NameOf(self.object_info, self.pool[i]) :
                     i \in {j \in DOMAIN self.pool :
                              \/ InfoHas(self.object_info, self.pool[j].id)
                              \/ self.pool[j].id # object.id}}
             new_name == generate_smart_default_name(object.type, existing_names)
         IN [self EXCEPT !.object_info =
                InfoPut(self.object_info, object.id, new_name)]

RECURSIVE ApplyNamingEach(_, _)
\* for object in editor_project.pool.objects() {
\*     editor_project.apply_smart_naming_to_object(object) }
ApplyNamingEach(self, objects) ==
    IF objects = <<>> THEN self
    ELSE ApplyNamingEach(apply_smart_naming_to_object(self, Head(objects)),
                         Tail(objects))

\* A variant without the check of the length of the pool data
load_pool_unchecked(project_file) ==
    [ok |-> TRUE, pool |-> from_iop(project_file.object_pool_data), err |-> ""]

\* ProjectFile::load_pool : Result<ObjectPool, String>
load_pool(project_file) ==
    LET data == project_file.object_pool_data
        pool == from_iop(data)
    IN IF data.len < 4
       THEN [ok |-> FALSE, pool |-> <<>>,
             err |-> "Object pool data is too small to be valid"]
       ELSE IF pool = <<>> /\ data.len > 4
       THEN [ok |-> FALSE, pool |-> <<>>,
             err |-> "Failed to parse object pool: no objects found in data"]
       ELSE [ok |-> TRUE, pool |-> pool, err |-> ""]

\* "Restore object metadata": the names of the metadata entries of the
\* objects of the pool
RestoreMetadata(pool, metadata) ==
    LET named == {id \in PoolIds(pool) \cap DOMAIN metadata :
                     metadata[id].name # <<>>}
    IN [id \in named |-> metadata[id].name[1]]

\* ObjectId::new(value).is_ok() : every u16 but the null id
ObjectIdNewOk(value) == value # NULL_OBJECT_ID

\* "Restore last selected"
RestoreLastSelected(self, last_selected) ==
    IF last_selected # <<>> /\ ObjectIdNewOk(last_selected[1])
    THEN [self EXCEPT !.selected_object = last_selected[1],
                      !.mut_selected_object = last_selected[1]]
    ELSE self

\* EditorProject::load_project : Result<Self, String>, project being the
\* Option of the Ok value
load_project(data) ==
    IF from_bytes(data) = <<>>
    THEN [ok |-> FALSE, project |-> <<>>,
          err |-> "Failed to parse project file"]
    ELSE LET project_file == from_bytes(data)[1]
             loaded == load_pool(project_file)
             editor_project ==
                 [EditorProjectFrom(loaded.pool) EXCEPT
                    !.mask_size = project_file.settings.mask_size]
             restored ==
                 [editor_project EXCEPT !.object_info =
                     RestoreMetadata(editor_project.pool,
                                     project_file.object_metadata)]
             named == ApplyNamingEach(restored, restored.pool)
         IN IF ~loaded.ok
            THEN [ok |-> FALSE, project |-> <<>>, err |-> loaded.err]
            ELSE [ok |-> TRUE,
                  project |-> <<RestoreLastSelected(
                                  named, project_file.settings.last_selected)>>,
                  err |-> ""]

RECURSIVE name_imported(_, _, _)
\* "3. Add imported objects to pool, renaming only if name conflicts": the
\* object_info the loop leaves, self.pool being the committed pool
name_imported(self, imported_objects, existing_names) ==
    IF imported_objects = <<>> THEN self.object_info
    ELSE LET imported_obj == Head(imported_objects)
             needs_rename ==
                 IF InfoHas(self.object_info, imported_obj.id)
                 THEN self.object_info[imported_obj.id] \in existing_names
                 ELSE TRUE
             named ==
                 IF needs_rename
                 THEN [self EXCEPT !.object_info =
                         InfoPut(self.object_info, imported_obj.id,
                                 generate_smart_name_for_new_object(
                                     self, imported_obj.type))]
                 ELSE self
         IN name_imported(named, Tail(imported_objects), existing_names)

RECURSIVE AddAndCommitEach(_, _)
\* Each object added to the staging pool and committed on its own
AddAndCommitEach(self, objects) ==
    IF objects = <<>> THEN self
    ELSE AddAndCommitEach(
           update_pool([self EXCEPT !.mut_pool =
                          SortById(PoolAdd(self.mut_pool, Head(objects)))]).self,
           Tail(objects))

\* A variant that commits after every inserted object
import_selected_commit_each(self, import_pool, order) ==
    LET assigned == assign_ids(self.pool, import_pool, order, <<>>)
        id_map == assigned.id_map
        imported_objects == SortById(clone_and_remap(import_pool, order, id_map))
        r == AddAndCommitEach(self, imported_objects)
        first == IF r.pool # <<>> THEN r.pool[1].id ELSE NULL_OBJECT_ID
    IN IF assigned.panic
       THEN [panic |-> TRUE, self |-> self, pre |-> self, ret |-> FALSE,
             id_map |-> id_map, imported_objects |-> <<>>]
       ELSE [panic |-> FALSE,
             self |-> [r EXCEPT !.mut_selected_object = first],
             pre |-> self, ret |-> imported_objects # <<>>,
             id_map |-> id_map, imported_objects |-> imported_objects]

\* The import of the objects `selected` of import_pool, to_import being
\* iterated in the order `order`: [panic, self, pre, ret, id_map,
\* imported_objects], pre being self at the call of update_pool
import_selected(self, import_pool, order) ==
    LET assigned == assign_ids(self.pool, import_pool, order, <<>>)
        id_map == assigned.id_map
        imported_objects == SortById(clone_and_remap(import_pool, order, id_map))
        existing_names ==
            {self.object_info[self.pool[i].id] :
                i \in {j \in DOMAIN self.pool :
                         InfoHas(self.object_info, self.pool[j].id)}}
        added == [self EXCEPT
                    !.mut_pool = SortById(AddAll(self.mut_pool, imported_objects)),
                    !.object_info =
                        name_imported(self, imported_objects, existing_names)]
        r == update_pool(added)
        first == IF r.self.pool # <<>> THEN r.self.pool[1].id
                 ELSE NULL_OBJECT_ID
    IN IF assigned.panic
       THEN [panic |-> TRUE, self |-> self, pre |-> self, ret |-> FALSE,
             id_map |-> id_map, imported_objects |-> <<>>]
       ELSE [panic |-> FALSE,
             self |-> [r.self EXCEPT !.mut_selected_object = first],
             pre |-> added, ret |-> r.ret,
             id_map |-> id_map, imported_objects |-> imported_objects]

\* The pools offered for import
ImportPools ==
    {<<Object(0, "WorkingSet", <<3000>>),
       Object(3000, "Container", <<6000, 6001>>),
       Object(6000, "Button", <<>>)>>,
     <<Object(6000, "Button", <<>>),
       Object(6001, "Button", <<6000>>),
       Object(27000, "ObjectPointer", <<6001>>)>>}

\* The sequences that list every element of the set S once
Orders(S) ==
    {order \in [1..Cardinality(S) -> S] :
        \A i, j \in DOMAIN order : order[i] = order[j] => i = j}

\* The set to_import of the objects `selected` of import_pool
to_import_of(import_pool, selected) ==
    retain_importable(
        import_pool,
        collect_to_import(import_pool, CHOOSE queue \in Orders(selected) : TRUE,
                          {}))

\* main.rs, "Import Selected" of the import dialog, which is shown after
\* the update_pool() and update_selected() of the frame
DoImport(import_pool, selected) ==
    /\ ~aborted
    /\ stage = 0
    /\ \E order \in Orders(to_import_of(import_pool, selected)) :
          LET r == import_selected(project, import_pool, order)
          IN /\ aborted' = r.panic
             /\ project' = r.self
             /\ call' = Called("import", r.pre, r.self, r.ret)
             /\ merge' = [import_pool |-> import_pool, selected |-> selected,
                          to_import |-> order, id_map |-> r.id_map,
                          imported_objects |-> r.imported_objects,
                          target |-> project.pool,
                          target_info |-> project.object_info]
             /\ NamesOnCommit(r.pre, r.ret)
    /\ UNCHANGED <<clipboard, stage>>

\* main.rs, the end of the frame: update_pool() then update_selected()
DoEndFrame ==
    /\ ~aborted
    /\ stage' = 0
    /\ LET r == update_pool(project)
       IN /\ project' = update_selected(r.self).self
          /\ call' = Called("update_pool", project, r.self, r.ret)
          /\ NamesOnCommit(project, r.ret)
    /\ UNCHANGED <<clipboard, aborted>>

CreateObject == \E t \in CreateTypes, n \in Names : Budget /\ DoCreateObject(t, n)
Undo == Budget /\ DoUndo
Redo == Budget /\ DoRedo
CopyExact == Budget /\ DoCopyExact
CopyAsNew == Budget /\ DoCopyAsNew
Paste == Budget /\ DoPaste
SetPrevious == Budget /\ DoSetPrevious
SetNext == Budget /\ DoSetNext
Select == \E id \in PoolIds(project.pool) : Budget /\ DoSelect(id)
Delete == \E id \in PoolIds(project.pool) : Budget /\ DoDelete(id)
Rename == \E id \in PoolIds(project.pool), n \in Names : Budget /\ DoRename(id, n)
ChangeId == \E new_id \in IdChoices : Budget /\ DoChangeId(new_id)
EndFrame == Budget /\ DoEndFrame

Next ==
    \/ CreateObject
    \/ Undo
    \/ Redo
    \/ CopyExact
    \/ CopyAsNew
    \/ Paste
    \/ SetPrevious
    \/ SetNext
    \/ Select
    \/ Delete
    \/ Rename
    \/ ChangeId
    \/ EndFrame

Spec == Init /\ [][Next]_vars

\* ------------------------------------------------ deep histories
\* The same document driven only by creating a button when the staging pool
\* has none, deleting a button, frame ends, undo and redo, with no limit on
\* the number of events, so that the histories fill up to their capacity.
IsButton(id) ==
    /\ HasObject(project.pool, id)
    /\ object_by_id(project.pool, id).type = "Button"

Idle == UNCHANGED <<nops, guard, merge, load, io>>

NoButton(pool) == \A i \in DOMAIN pool : pool[i].type # "Button"

HistCreateObject ==
    Idle /\ NoButton(project.mut_pool) /\ DoCreateObject("Button", "a")
HistDelete == \E id \in PoolIds(project.pool) : Idle /\ IsButton(id) /\ DoDelete(id)
HistUndo == Idle /\ DoUndo
HistRedo == Idle /\ DoRedo
HistEndFrame == Idle /\ DoEndFrame

NextHist ==
    \/ HistCreateObject
    \/ HistDelete
    \/ HistUndo
    \/ HistRedo
    \/ HistEndFrame

SpecHist == Init /\ [][NextHist]_vars

\* ------------------------------------------------ selection history alone
\* The selection methods of EditorProject driven through its public
\* interface: get_mut_selected().replace(id), update_selected(),
\* set_previous_selected() and set_next_selected(). Any of "no selection"
\* and the ids of two objects is selected while the selection stacks hold
\* fewer than MaxSelChoice entries; beyond that the selection alternates
\* between the two objects, so that the stacks fill up to their capacity.
SelChoices == {NULL_OBJECT_ID, 0, 1000}

SelFrame == UNCHANGED <<clipboard, aborted, stage, nops, names_undo,
                        names_redo, names_expect, guard, merge, load, io>>

\* project.get_mut_selected().replace(id)
ApiSetSelected(id) ==
    /\ \/ Len(project.undo_selected_history)
            + Len(project.redo_selected_history) < MaxSelChoice
       \/ id = (IF project.selected_object = 0 THEN 1000 ELSE 0)
    /\ project.mut_selected_object = project.selected_object
    /\ project' = [project EXCEPT !.mut_selected_object = id]
    /\ call' = Called("get_mut_selected", project, project', FALSE)
    /\ SelFrame

ApiUpdateSelected ==
    /\ LET r == update_selected(project)
       IN /\ project' = r.self
          /\ call' = Called("update_selected", project, r.self, r.ret)
    /\ SelFrame

ApiSetPrevious ==
    /\ project' = set_previous_selected(project)
    /\ call' = Called("set_previous_selected", project, project', FALSE)
    /\ SelFrame

ApiSetNext ==
    /\ project' = set_next_selected(project)
    /\ call' = Called("set_next_selected", project, project', FALSE)
    /\ SelFrame

SetSelected == \E id \in SelChoices : ApiSetSelected(id)

NextSel ==
    \/ SetSelected
    \/ ApiUpdateSelected
    \/ ApiSetPrevious
    \/ ApiSetNext

SpecSel == Init /\ [][NextSel]_vars

\* ------------------------------------------------ reference edits
\* A document of two containers, or of a fill attributes object and a
\* picture graphic, opened with one of its objects selected, and edited one
\* event per frame: reference selectors, id changes, delete, select, copy
\* as new, paste, undo and redo.
RefPools ==
    {<<Object(3000, "Container", <<3001>>), Object(3001, "Container", <<>>)>>,
     <<Object(20000, "PictureGraphic", <<>>),
       Object(25000, "FillAttributes", <<NULL_OBJECT_ID>>)>>}

RefIdChoices == {3001, 3002}

\* EditorProject::load_project, "Restore last selected"
RestoreSelected(self, id) ==
    [self EXCEPT !.selected_object = id, !.mut_selected_object = id]

InitRefs ==
    /\ \E pool \in RefPools :
          \E id \in PoolIds(pool) :
              StartedWith(RestoreSelected(EditorProjectFrom(pool), id))
    /\ guard = NoGuard
    /\ merge = NoMerge
    /\ load = NoLoad
    /\ io = NoIo

RefBudget ==
    /\ nops < MaxRefOps
    /\ nops' = nops + 1
    /\ UNCHANGED <<merge, load, io>>

\* One user event in a frame
RefEvent == RefBudget /\ stage = 0

RefSetRef ==
    \E idx \in 1..MaxObjects, clicked \in PoolIds(project.pool) :
        RefEvent /\ DoSetRef(idx, clicked)
RefAddRef == \E clicked \in PoolIds(project.pool) : RefEvent /\ DoAddRef(clicked)
RefSetFillPattern ==
    \E clicked \in PoolIds(project.pool) \cup {NULL_OBJECT_ID} :
        RefEvent /\ DoSetFillPattern(clicked)
RefChangeId ==
    \E new_id \in RefIdChoices : RefEvent /\ DoChangeId(new_id) /\ UNCHANGED guard
RefSelect ==
    \E id \in PoolIds(project.pool) : RefEvent /\ DoSelect(id) /\ UNCHANGED guard
RefDelete ==
    \E id \in PoolIds(project.pool) : RefEvent /\ DoDelete(id) /\ UNCHANGED guard
RefCopyAsNew == RefEvent /\ DoCopyAsNew /\ UNCHANGED guard
RefPaste == RefEvent /\ DoPaste /\ UNCHANGED guard
RefUndo == RefEvent /\ DoUndo /\ UNCHANGED guard
RefRedo == RefEvent /\ DoRedo /\ UNCHANGED guard
RefEndFrame == RefBudget /\ DoEndFrame /\ UNCHANGED guard

NextRefs ==
    \/ RefSetRef
    \/ RefAddRef
    \/ RefSetFillPattern
    \/ RefChangeId
    \/ RefSelect
    \/ RefDelete
    \/ RefCopyAsNew
    \/ RefPaste
    \/ RefUndo
    \/ RefRedo
    \/ RefEndFrame

SpecRefs == InitRefs /\ [][NextRefs]_vars

\* ------------------------------------------------ import merges
\* The document with the objects below one object of a second pool
\* imported, some deleted again, and the merges undone, one event per frame.
ImportBudget ==
    /\ nops < MaxImportOps
    /\ nops' = nops + 1
    /\ UNCHANGED <<guard, load, io>>

\* The selections of the import tree tried: nothing, or one object, which
\* brings the objects it references along
ImportChoices(import_pool) == {{}} \cup {{id} : id \in PoolIds(import_pool)}

ImportSelected ==
    \E import_pool \in ImportPools :
        \E selected \in ImportChoices(import_pool) :
            ImportBudget /\ DoImport(import_pool, selected)
ImportDelete ==
    \E id \in PoolIds(project.pool) :
        ImportBudget /\ stage = 0 /\ DoDelete(id) /\ UNCHANGED merge
ImportUndo == ImportBudget /\ stage = 0 /\ DoUndo /\ UNCHANGED merge
ImportEndFrame == ImportBudget /\ DoEndFrame /\ UNCHANGED merge

NextImport ==
    \/ ImportSelected
    \/ ImportDelete
    \/ ImportUndo
    \/ ImportEndFrame

\* The documents merged into: those of Init, and a pool loaded without a
\* working set
InitImport ==
    /\ \E pool \in InitPools \cup {<<Object(1000, "DataMask", <<>>)>>} :
          Started(pool)
    /\ guard = NoGuard
    /\ merge = NoMerge
    /\ load = NoLoad
    /\ io = NoIo

SpecImport == InitImport /\ [][NextImport]_vars

\* ------------------------------------------------ file loads
\* The document with files handed to handle_file_loaded at the start of a
\* frame, between edits, commits, undos and import merges.

\* The pools the files hold
KeyPool == <<Object(5000, "Key", <<>>), Object(5001, "Key", <<>>)>>

LoadPools == {KeyPool, <<WorkingSet0, Object(1000, "DataMask", <<>>)>>}

\* Raw pool data: no bytes, truncated or without an object (3, 4 and 9
\* bytes), and well-formed
IopData ==
    {IopBytes(0, <<>>), IopBytes(3, <<>>), IopBytes(4, <<>>), IopBytes(9, <<>>)}
    \cup {IopBytes(40, pool) : pool \in LoadPools}

\* object_metadata of the wrapper: nothing, a name for 5000, a name the
\* naming service would generate, an entry without a name beside a name,
\* and a name for an id that has no object
MetadataChoices ==
    {<<>>,
     5000 :> [name |-> <<"Start">>],
     5000 :> [name |-> <<"Key 1">>],
     (5000 :> [name |-> <<>>]) @@ (5001 :> [name |-> <<"Start">>]),
     5002 :> [name |-> <<"Start">>]}

\* settings.last_selected of the wrapper
LastSelectedChoices == {<<>>, <<5000>>, <<5002>>, <<NULL_OBJECT_ID>>}

\* The raw pool files, which are no JSON
RawContents == {FileContent(data, <<>>) : data \in IopData}

\* The project files: JSON text, which holds no object for from_iop
ProjectContents ==
    {FileContent(IopBytes(200, <<>>), <<ProjectFileOf(data, <<>>, 200, <<>>)>>) :
        data \in IopData}
    \cup {FileContent(IopBytes(200, <<>>),
                      <<ProjectFileOf(IopBytes(40, KeyPool), metadata, 200, <<>>)>>) :
             metadata \in MetadataChoices}
    \cup {FileContent(IopBytes(200, <<>>),
                      <<ProjectFileOf(IopBytes(40, KeyPool),
                                      5000 :> [name |-> <<"Start">>],
                                      200, last_selected)>>) :
             last_selected \in LastSelectedChoices}

Contents == RawContents \cup ProjectContents

\* The bookkeeping of the histories of a document that has just replaced
\* the one before
NamesOnLoad ==
    /\ names_undo' = <<>>
    /\ names_redo' = <<>>
    /\ names_expect' = <<>>

\* handle_file_loaded, Some(FileDialogReason::LoadPool)
DoLoadPool(content, apply_smart_naming_on_import) ==
    /\ ~aborted
    /\ stage = 0
    /\ LET from == EditorProjectFrom(from_iop(content.iop))
           loaded == IF apply_smart_naming_on_import
                     THEN apply_smart_naming_to_all_objects(from)
                     ELSE from
       IN /\ project' = loaded
          /\ call' = Called("load_pool", project, loaded, TRUE)
    /\ load' = [reason |-> "LoadPool", content |-> content,
                apply_smart_naming_on_import |-> apply_smart_naming_on_import,
                ok |-> TRUE]
    /\ NamesOnLoad
    /\ UNCHANGED <<clipboard, aborted, stage>>

\* handle_file_loaded, Some(FileDialogReason::LoadProject)
DoLoadProject(content) ==
    /\ ~aborted
    /\ stage = 0
    /\ LET r == load_project(content)
       IN /\ IF r.ok
             THEN /\ project' = r.project[1]
                  /\ NamesOnLoad
             ELSE UNCHANGED <<project, names_undo, names_redo, names_expect>>
          /\ call' = Called("load_project", project, project', r.ok)
          /\ load' = [reason |-> "LoadProject", content |-> content,
                      apply_smart_naming_on_import |-> FALSE, ok |-> r.ok]
    /\ UNCHANGED <<clipboard, aborted, stage>>

LoadBudget ==
    /\ nops < MaxLoadOps
    /\ nops' = nops + 1
    /\ UNCHANGED <<guard, io>>

LoadPoolFile ==
    \E content \in RawContents, apply_smart_naming_on_import \in BOOLEAN :
        LoadBudget /\ DoLoadPool(content, apply_smart_naming_on_import)
           /\ UNCHANGED merge
LoadProjectFile ==
    \E content \in Contents :
        LoadBudget /\ DoLoadProject(content) /\ UNCHANGED merge
LoadImport ==
    \E import_pool \in ImportPools :
        LoadBudget /\ DoImport(import_pool, PoolIds(import_pool))
           /\ UNCHANGED load
LoadRename ==
    \E id \in PoolIds(project.pool), n \in Names :
        LoadBudget /\ DoRename(id, n) /\ UNCHANGED <<merge, load>>
LoadSelect ==
    \E id \in PoolIds(project.pool) :
        LoadBudget /\ DoSelect(id) /\ UNCHANGED <<merge, load>>
LoadDelete ==
    \E id \in PoolIds(project.pool) :
        LoadBudget /\ DoDelete(id) /\ UNCHANGED <<merge, load>>
LoadEndFrame == LoadBudget /\ DoEndFrame /\ UNCHANGED <<merge, load>>

NextLoad ==
    \/ LoadPoolFile
    \/ LoadProjectFile
    \/ LoadImport
    \/ LoadRename
    \/ LoadSelect
    \/ LoadDelete
    \/ LoadEndFrame

\* The documents open when the first file arrives: those of Init, and one
\* loaded from a project file with a name and a selection
InitLoad ==
    /\ \/ \E pool \in InitPools : Started(pool)
       \/ StartedWith(
             load_project(
               FileContent(IopBytes(200, <<>>),
                           <<ProjectFileOf(IopBytes(40, KeyPool),
                                           5000 :> [name |-> <<"Start">>],
                                           200, <<5000>>)>>)).project[1])
    /\ guard = NoGuard
    /\ merge = NoMerge
    /\ load = NoLoad
    /\ io = NoIo

SpecLoad == InitLoad /\ [][NextLoad]_vars

\* ------------------------------------------------ automatic naming
\* The naming methods of EditorProject called on documents with and
\* without names, between renames.
NamingFrame ==
    /\ nops < MaxNamingOps
    /\ nops' = nops + 1
    /\ UNCHANGED <<clipboard, aborted, stage, names_undo, names_redo,
                   names_expect, guard, merge, load, io>>

NamingApplyToObject ==
    \E i \in DOMAIN project.pool :
        /\ NamingFrame
        /\ project' = apply_smart_naming_to_object(project, project.pool[i])
        /\ call' = Called("apply_smart_naming_to_object", project, project',
                          FALSE)

NamingApplyToAll ==
    /\ NamingFrame
    /\ project' = apply_smart_naming_to_all_objects(project)
    /\ call' = Called("apply_smart_naming_to_all_objects", project, project',
                      FALSE)

NamingRename ==
    \E id \in PoolIds(project.pool), name \in Names :
        /\ NamingFrame
        /\ project' = finish_renaming_object(project, id, name)
        /\ call' = Called("finish_renaming_object", project, project', FALSE)

NextNaming ==
    \/ NamingApplyToObject
    \/ NamingApplyToAll
    \/ NamingRename

SpecNaming == InitLoad /\ [][NextNaming]_vars

\* ------------------------------------------------ the cycle guard alone
\* would_create_circular_reference run statement by statement on every pool
\* of MaxNodes containers 1..MaxNodes whose reference lists hold up to two
\* ids, cycles, self-references and the absent id MaxNodes + 1 included,
\* for every parent and child.
GuardIds == 1..(MaxNodes + 1)

RefLists ==
    {<<>>} \cup {<<a>> : a \in GuardIds}
           \cup {<<a, b>> : a \in GuardIds, b \in GuardIds}

GuardPools ==
    {[i \in 1..MaxNodes |-> Object(i, "Container", refs[i])] :
        refs \in [1..MaxNodes -> RefLists]}

InitGuard ==
    /\ Started(<<WorkingSet0>>)
    /\ merge = NoMerge
    /\ load = NoLoad
    /\ io = NoIo
    /\ \E pool \in GuardPools, parent_id \in GuardIds, child_id \in GuardIds :
          guard = GuardCall(pool, parent_id, child_id)

GuardFrame == UNCHANGED <<project, clipboard, aborted, stage, nops, call,
                          names_undo, names_redo, names_expect, merge, load, io>>

\* the entry of the function up to the loop
GuardEnterStep ==
    /\ guard.pc = "idle"
    /\ guard' = GuardEnter(guard)
    /\ GuardFrame

\* stack.pop() is Some: one pass through the loop body
GuardLoopStep ==
    /\ guard.pc = "loop"
    /\ guard.stack # <<>>
    /\ guard' = GuardIterate(guard)
    /\ GuardFrame

\* stack.pop() is None: the loop ends and false is returned
GuardReturnStep ==
    /\ guard.pc = "loop"
    /\ guard.stack = <<>>
    /\ guard' = GuardIterate(guard)
    /\ GuardFrame

NextGuard ==
    \/ GuardEnterStep
    \/ GuardLoopStep
    \/ GuardReturnStep

SpecGuard == InitGuard /\ [][NextGuard]_vars

\* ------------------------------------------------ saving
\* The document edited, saved by the periodic autosave at the start of a
\* frame or by "Save Project" of the File menu, and the saved bytes opened
\* again as a project; io.saved holds the bytes of the last save and the
\* EditorProject they were made from.
MaskSizes == {100, 480}

\* main.rs, the "Virtual Mask size" slider of the top panel
DoSetMaskSize(mask_size) ==
    /\ ~aborted
    /\ stage <= StagePaste
    /\ stage' = StagePaste
    /\ project' = [project EXCEPT !.mask_size = mask_size]
    /\ call' = Called("mask_size", project, project', FALSE)
    /\ UNCHANGED <<clipboard, aborted, names_undo, names_redo, names_expect>>

\* What a call of project.save_project() leaves behind
Saved ==
    /\ io' = [io EXCEPT !.saved = <<[content |-> save_project(project),
                                     self |-> project]>>]
    /\ call' = Called("save_project", project, project, TRUE)
    /\ UNCHANGED <<project, clipboard, aborted, names_undo, names_redo,
                   names_expect>>

\* DesignerApp::update, "AUTOSAVE FEATURE": the interval has elapsed at the
\* start of a frame
DoAutosave ==
    /\ ~aborted
    /\ stage = 0
    /\ UNCHANGED stage
    /\ Saved

\* DesignerApp::save_project, "Save Project (.aitp)" of the File menu
DoSaveProject ==
    /\ ~aborted
    /\ stage <= StagePaste
    /\ stage' = StagePaste
    /\ Saved

SaveBudget ==
    /\ nops < MaxSaveOps
    /\ nops' = nops + 1
    /\ UNCHANGED <<guard, merge>>

SaveCreate == SaveBudget /\ DoCreateObject("Button", "a") /\ UNCHANGED <<load, io>>
SaveRename ==
    \E id \in PoolIds(project.pool) :
        SaveBudget /\ DoRename(id, "b") /\ UNCHANGED <<load, io>>
SaveSelect ==
    \E id \in PoolIds(project.pool) :
        SaveBudget /\ DoSelect(id) /\ UNCHANGED <<load, io>>
SaveDelete ==
    \E id \in PoolIds(project.pool) :
        SaveBudget /\ DoDelete(id) /\ UNCHANGED <<load, io>>
SaveSetMaskSize ==
    \E mask_size \in MaskSizes :
        SaveBudget /\ DoSetMaskSize(mask_size) /\ UNCHANGED <<load, io>>
SaveEndFrame == SaveBudget /\ DoEndFrame /\ UNCHANGED <<load, io>>
SaveAutosave == SaveBudget /\ DoAutosave /\ UNCHANGED load
SaveMenu == SaveBudget /\ DoSaveProject /\ UNCHANGED load
SaveReopen ==
    /\ io.saved # <<>>
    /\ SaveBudget
    /\ DoLoadProject(io.saved[1].content)
    /\ UNCHANGED io

NextSave ==
    \/ SaveCreate
    \/ SaveRename
    \/ SaveSelect
    \/ SaveDelete
    \/ SaveSetMaskSize
    \/ SaveEndFrame
    \/ SaveAutosave
    \/ SaveMenu
    \/ SaveReopen

SpecSave == InitLoad /\ [][NextSave]_vars

\* ------------------------------------------------ file dialogs
\* DesignerApp's file dialogs: open_file_dialog stores the reason and starts
\* a task that waits for the user; the task sends the content of the picked
\* file into the channel, or nothing when the dialog is dismissed, at any
\* time; handle_file_loaded at the start of a frame receives at most one
\* content and applies it under the reason it takes from the single slot.
\* Each message carries, beside the content, the reason its dialog was
\* opened with, which the program does not have.
FilesPool ==
    <<Object(1000, "DataMask", <<>>), Object(20000, "PictureGraphic", <<>>)>>

\* The files the user picks: a raw pool file and a project file
FileChoices ==
    {FileContent(IopBytes(40, KeyPool), <<>>),
     FileContent(IopBytes(200, <<>>),
                 <<ProjectFileOf(IopBytes(40, KeyPool),
                                 5000 :> [name |-> <<"Start">>], 200,
                                 <<5000>>)>>)}

\* The reasons of the three entries of the File menu
MenuReasons ==
    {FileDialogReason(kind, NULL_OBJECT_ID) :
        kind \in {"LoadPool", "LoadProject", "ImportPool"}}

\* DesignerApp::open_file_dialog : the reason replaces the one stored, and
\* a dialog task is started
open_file_dialog(app, reason) ==
    [app EXCEPT !.file_dialog_reason = <<reason>>,
                !.dialogs = Append(@, reason)]

\* The sequence without its i-th element
RemoveAt(seq, i) == SubSeq(seq, 1, i - 1) \o SubSeq(seq, i + 1, Len(seq))

\* DesignerApp::handle_file_loaded : [self, app, replaced, ok], replaced
\* telling whether self.project was assigned. The pixels an image file
\* writes into a picture graphic are not part of Object.
handle_file_loaded(self, app, apply_smart_naming_on_import) ==
    IF app.file_channel = <<>>
    THEN [self |-> self, app |-> app, replaced |-> FALSE, ok |-> FALSE]
    ELSE LET message == Head(app.file_channel)
             content == message.content
             reason == app.file_dialog_reason
             kind == IF reason = <<>> THEN "None" ELSE reason[1].kind
             taken == [app EXCEPT
                         !.file_channel = Tail(@),
                         !.file_dialog_reason = <<>>,
                         !.received = <<[content |-> content,
                                         dialog |-> message.dialog,
                                         reason |-> reason]>>]
             from == EditorProjectFrom(from_iop(content.iop))
             r == load_project(content)
         IN CASE kind = "LoadPool" ->
                   [self |-> IF apply_smart_naming_on_import
                             THEN apply_smart_naming_to_all_objects(from)
                             ELSE from,
                    app |-> taken, replaced |-> TRUE, ok |-> TRUE]
              [] kind = "ImportPool" ->
                   [self |-> self,
                    app |-> [taken EXCEPT !.import_tree_selection =
                                              <<from_iop(content.iop)>>],
                    replaced |-> FALSE, ok |-> TRUE]
              [] kind = "LoadProject" ->
                   IF r.ok
                   THEN [self |-> r.project[1], app |-> taken,
                         replaced |-> TRUE, ok |-> TRUE]
                   ELSE [self |-> self, app |-> taken,
                         replaced |-> FALSE, ok |-> FALSE]
              [] kind = "OpenImagePictureGraphics" ->
                   [self |-> self, app |-> taken, replaced |-> FALSE,
                    ok |-> HasObject(self.mut_pool, reason[1].id)]
              [] OTHER ->
                   [self |-> self, app |-> taken, replaced |-> FALSE,
                    ok |-> FALSE]

\* DesignerApp::update, "Handle file dialog" and "Check for image load
\* requests" at the start of a frame
DoFrameStart(apply_smart_naming_on_import) ==
    /\ ~aborted
    /\ stage = 0
    /\ io.file_channel # <<>> \/ project.image_load_request # <<>>
    /\ LET h == handle_file_loaded(project, io, apply_smart_naming_on_import)
           t == take_image_load_request(h.self)
           app == IF t.ret # <<>>
                  THEN open_file_dialog(
                           h.app,
                           FileDialogReason("OpenImagePictureGraphics",
                                            t.ret[1]))
                  ELSE h.app
       IN /\ project' = t.self
          /\ io' = [app EXCEPT
                      !.requested = <<>>,
                      !.taken = <<[ret |-> t.ret, requests |-> io.requested]>>]
          /\ call' = Called("handle_file_loaded", project, t.self, h.ok)
          /\ load' = IF io.file_channel = <<>> THEN load
                     ELSE [reason |-> IF io.file_dialog_reason = <<>>
                                      THEN "None"
                                      ELSE io.file_dialog_reason[1].kind,
                           content |-> Head(io.file_channel).content,
                           apply_smart_naming_on_import |->
                               apply_smart_naming_on_import,
                           ok |-> h.ok]
          /\ IF h.replaced THEN NamesOnLoad
             ELSE UNCHANGED <<names_undo, names_redo, names_expect>>
    /\ UNCHANGED <<clipboard, aborted, stage>>

\* main.rs, an entry of the File menu that opens a file dialog
DoOpenFileDialog(reason) ==
    /\ ~aborted
    /\ stage = 0
    /\ stage' = StagePaste
    /\ io' = open_file_dialog(io, reason)
    /\ call' = Called("open_file_dialog", project, project, FALSE)
    /\ UNCHANGED <<project, clipboard, aborted, load, names_undo, names_redo,
                   names_expect>>

\* PictureGraphic::render_parameters, "Load Image"
DoRequestImageLoad ==
    /\ ParametersShown("PictureGraphic")
    /\ project' = request_image_load(project, project.selected_object)
    /\ io' = [io EXCEPT !.requested = Append(@, project.selected_object)]
    /\ call' = Called("request_image_load", project, project', FALSE)
    /\ UNCHANGED load

\* The task of the i-th open dialog: the user picked a file, and its
\* content is sent
DoPickFile(i, content) ==
    /\ i \in DOMAIN io.dialogs
    /\ io' = [io EXCEPT
                !.dialogs = RemoveAt(@, i),
                !.file_channel = Append(@, [content |-> content,
                                            dialog |-> io.dialogs[i]])]
    /\ UNCHANGED <<project, clipboard, aborted, stage, call, load,
                   names_undo, names_redo, names_expect>>

\* The task of the i-th open dialog: the user dismissed the dialog
DoCancelDialog(i) ==
    /\ i \in DOMAIN io.dialogs
    /\ io' = [io EXCEPT !.dialogs = RemoveAt(@, i)]
    /\ UNCHANGED <<project, clipboard, aborted, stage, call, load,
                   names_undo, names_redo, names_expect>>

FilesBudget ==
    /\ nops < MaxFileOps
    /\ nops' = nops + 1
    /\ UNCHANGED <<guard, merge>>

FilesOpenDialog == \E reason \in MenuReasons : FilesBudget /\ DoOpenFileDialog(reason)
FilesRequestImageLoad == FilesBudget /\ DoRequestImageLoad
FilesPickFile ==
    \E i \in 1..MaxFileOps, content \in FileChoices :
        FilesBudget /\ DoPickFile(i, content)
FilesCancelDialog == \E i \in 1..MaxFileOps : FilesBudget /\ DoCancelDialog(i)
FilesFrameStart == FilesBudget /\ DoFrameStart(TRUE)
FilesEndFrame == FilesBudget /\ DoEndFrame /\ UNCHANGED <<load, io>>

NextFiles ==
    \/ FilesOpenDialog
    \/ FilesRequestImageLoad
    \/ FilesPickFile
    \/ FilesCancelDialog
    \/ FilesFrameStart
    \/ FilesEndFrame

InitFiles ==
    /\ StartedWith(RestoreSelected(EditorProjectFrom(FilesPool), 20000))
    /\ guard = NoGuard
    /\ merge = NoMerge
    /\ load = NoLoad
    /\ io = NoIo

SpecFiles == InitFiles /\ [][NextFiles]_vars

\* ------------------------------------------------ image load requests
\* request_image_load and take_image_load_request of one EditorProject
\* driven through its public interface, any number of requests between two
\* takes; io.requested lists the requests made since the previous take and
\* io.taken holds what the last take returned and the requests it followed.
ImageIds == {255, 20000, 20001}

ImageFrame ==
    /\ nops < MaxImageOps
    /\ nops' = nops + 1
    /\ UNCHANGED <<clipboard, aborted, stage, names_undo, names_redo,
                   names_expect, guard, merge, load>>

ApiRequestImageLoad(object_id) ==
    /\ project' = request_image_load(project, object_id)
    /\ call' = Called("request_image_load", project, project', FALSE)
    /\ io' = [io EXCEPT !.requested = Append(@, object_id)]
    /\ ImageFrame

ApiTakeImageLoadRequest ==
    /\ LET r == take_image_load_request(project)
       IN /\ project' = r.self
          /\ call' = Called("take_image_load_request", project, r.self, FALSE)
          /\ io' = [io EXCEPT
                      !.requested = <<>>,
                      !.taken = <<[ret |-> r.ret, requests |-> io.requested]>>]
    /\ ImageFrame

RequestImageLoad == \E object_id \in ImageIds : ApiRequestImageLoad(object_id)

NextImage ==
    \/ RequestImageLoad
    \/ ApiTakeImageLoadRequest

SpecImage == Init /\ [][NextImage]_vars

\* ------------------------------------------------ missing objects
\* A document whose first container references an id that has no object,
\* opened with one of its objects selected: objects are selected and
\* deleted, the selection is copied, a child is added to the selected
\* container, and objects of a pool with a dangling reference are imported.
MissingPools ==
    {<<Object(3000, "Container", <<3001, 3002>>),
       Object(3001, "Container", <<>>)>>}

\* The pool offered for import: its container references button 6001,
\* which it does not hold; the working set or the container is chosen
MissingImportPool ==
    <<Object(0, "WorkingSet", <<3000>>),
      Object(3000, "Container", <<6000, 6001>>),
      Object(6000, "Button", <<>>)>>

MissingImportChoices == {{0}, {3000}}

InitMissing ==
    /\ \E pool \in MissingPools :
          \E id \in PoolIds(pool) :
              StartedWith(RestoreSelected(EditorProjectFrom(pool), id))
    /\ guard = NoGuard
    /\ merge = NoMerge
    /\ load = NoLoad
    /\ io = NoIo

MissingBudget ==
    /\ nops < MaxMissingOps
    /\ nops' = nops + 1
    /\ UNCHANGED <<load, io>>

MissingSelect ==
    \E id \in PoolIds(project.pool) :
        MissingBudget /\ DoSelect(id) /\ UNCHANGED <<guard, merge>>
MissingDelete ==
    \E id \in PoolIds(project.pool) :
        MissingBudget /\ DoDelete(id) /\ UNCHANGED <<guard, merge>>
MissingCopyExact == MissingBudget /\ DoCopyExact /\ UNCHANGED <<guard, merge>>
MissingCopyAsNew == MissingBudget /\ DoCopyAsNew /\ UNCHANGED <<guard, merge>>
MissingAddRef ==
    \E clicked \in PoolIds(project.pool) :
        MissingBudget /\ DoAddRef(clicked) /\ UNCHANGED merge
MissingImport ==
    \E selected \in MissingImportChoices :
        MissingBudget /\ DoImport(MissingImportPool, selected) /\ UNCHANGED guard
MissingEndFrame == MissingBudget /\ DoEndFrame /\ UNCHANGED <<guard, merge>>

NextMissing ==
    \/ MissingSelect
    \/ MissingDelete
    \/ MissingCopyExact
    \/ MissingCopyAsNew
    \/ MissingAddRef
    \/ MissingImport
    \/ MissingEndFrame

SpecMissing == InitMissing /\ [][NextMissing]_vars

\* ------------------------------------------------------------ properties
Last(history) == history[Len(history)]

Front(history) == SubSeq(history, 1, Len(history) - 1)

UniqueIds(pool) ==
    \A i, j \in DOMAIN pool : pool[i].id = pool[j].id => i = j

InRange(id, range) == range[1] <= id /\ id <= range[2]

\* C1: no two objects of the committed pool, and no two objects of the
\* staging pool, have the same identifier, whatever sequence of create, copy,
\* paste, delete, identifier change, commit, undo and redo led to the state.
C1_UniqueIdentifiers ==
    /\ UniqueIds(project.pool)
    /\ UniqueIds(project.mut_pool)

\* C2: for every object type whose range has an identifier that is not in
\* the committed pool, allocate_object_id_for_type returns an identifier of
\* the range that is not in the committed pool, and every lower identifier
\* of the range is in the committed pool.
C2_AllocatesLowestFree ==
    \A t \in ObjectTypes :
        LET range == RangeOf[t]
            id == allocate_object_id_for_type(project, t)
        IN IF ~HasObject(project.pool, range[1])
           THEN id = range[1]
           ELSE (\E x \in range[1]..range[2] : ~HasObject(project.pool, x)) =>
                    /\ InRange(id, range)
                    /\ ~HasObject(project.pool, id)
                    /\ \A x \in range[1]..(id - 1) :
                           HasObject(project.pool, x)

\* C2, the case reached: a button is created while button 6000 is in the
\* committed pool, and gets 6001.
C2_Witness ==
    /\ call.op = "allocate_object_id_for_type"
    /\ HasObject(call.pre.pool, 6000)
    /\ ~HasObject(call.pre.mut_pool, 6001)
    /\ HasObject(project.mut_pool, 6001)
    /\ object_by_id(project.mut_pool, 6001).type = "Button"

\* C3: the identifier ranges of two different object types have no
\* identifier in common, so that the identifier the allocator hands out for
\* one type is never in the range of another type.
C3_RangesDisjoint ==
    \A t1, t2 \in ObjectTypes :
        t1 # t2 =>
            /\ \/ object_id_range(t1)[2] < object_id_range(t2)[1]
               \/ object_id_range(t2)[2] < object_id_range(t1)[1]
            /\ LET id == allocate_object_id_for_type(project, t1)
               IN id # PANIC => ~InRange(id, object_id_range(t2))

\* C4: in every state whose redo stack is empty, as it is after any sequence
\* of commits, or whose undo stack is not empty, undo() followed by redo()
\* leaves the committed pool and the committed selection as they were.
C4_UndoRedoRestores ==
    (undo_available(project) \/ ~redo_available(project)) =>
        LET after == redo(undo(project))
        IN /\ after.pool = project.pool
           /\ after.selected_object = project.selected_object

\* C4, the case reached: an undo that popped a snapshot was followed by a
\* redo, and the committed pool is the one from before the undo.
C4_Witness ==
    /\ call.op = "redo"
    /\ call.prev_op = "undo"
    /\ undo_available(call.prev_pre)
    /\ call.pre.pool # call.prev_pre.pool
    /\ project.pool = call.prev_pre.pool

\* C5: update_pool() called with a staging pool that differs from the
\* committed pool returns true, empties the redo stack, leaves the previous
\* committed pool as the newest undo snapshot and makes the committed pool
\* equal to the staging pool.
C5_CommitOfChangedPool ==
    (call.op = "update_pool" /\ call.pre.mut_pool # call.pre.pool) =>
        /\ call.ret = TRUE
        /\ call.post.redo_pool_history = <<>>
        /\ call.post.undo_pool_history # <<>>
        /\ Last(call.post.undo_pool_history) = call.pre.pool
        /\ call.post.pool = call.pre.mut_pool
        /\ call.post.pool = call.post.mut_pool

\* C5, the case reached: a commit of a changed staging pool while the redo
\* stack held a snapshot.
C5_Witness ==
    /\ call.op = "update_pool"
    /\ call.pre.mut_pool # call.pre.pool
    /\ call.pre.redo_pool_history # <<>>
    /\ call.ret = TRUE

\* C6: right after an update_pool(), with no edit of the staging pool since,
\* another update_pool() returns false and leaves the committed pool, the
\* undo stack and the redo stack (the whole project) as they are.
C6_SecondCommitUnchanged ==
    call.op = "update_pool" =>
        /\ update_pool(project).ret = FALSE
        /\ update_pool(project).self = project

\* C6, the case reached: the first of the two commits returned true, and a
\* frame end that followed it at once returned false.
C6_Witness ==
    /\ call.op = "update_pool"
    /\ call.prev_op = "update_pool"
    /\ call.prev_pre.mut_pool # call.prev_pre.pool
    /\ call.pre.undo_pool_history # <<>>
    /\ call.ret = FALSE
    /\ call.post = call.pre

\* C7: the undo stack never holds more than MAX_UNDO_REDO_POOL snapshots, and
\* a commit appends the previous committed pool to it, dropping the oldest
\* snapshot when that makes one too many.
C7_UndoStackBounded ==
    /\ Len(project.undo_pool_history) <= MAX_UNDO_REDO_POOL
    /\ (call.op = "update_pool" /\ call.ret) =>
          LET pushed == Append(call.pre.undo_pool_history, call.pre.pool)
          IN call.post.undo_pool_history =
                IF Len(call.pre.undo_pool_history) = MAX_UNDO_REDO_POOL
                THEN Tail(pushed)
                ELSE pushed

\* C7, the case reached: a commit while the undo stack is full.
C7_Witness ==
    /\ call.op = "update_pool"
    /\ call.ret
    /\ Len(call.pre.undo_pool_history) = MAX_UNDO_REDO_POOL
    /\ Len(project.undo_pool_history) = MAX_UNDO_REDO_POOL

\* C8: undo() with a non-empty undo stack pops the newest snapshot, pushes
\* the committed pool onto the redo stack and sets the committed and the
\* staging pool to the popped snapshot; with an empty undo stack it changes
\* nothing.
C8_Undo ==
    call.op = "undo" =>
        IF call.pre.undo_pool_history # <<>>
        THEN /\ call.post.undo_pool_history = Front(call.pre.undo_pool_history)
             /\ call.post.redo_pool_history =
                    Append(call.pre.redo_pool_history, call.pre.pool)
             /\ call.post.pool = Last(call.pre.undo_pool_history)
             /\ call.post.mut_pool = Last(call.pre.undo_pool_history)
        ELSE call.post = call.pre

\* C8, the case reached: an undo that discards an uncommitted staging edit.
C8_Witness ==
    /\ call.op = "undo"
    /\ call.pre.undo_pool_history # <<>>
    /\ call.pre.mut_pool # call.pre.pool
    /\ call.pre.mut_pool # project.mut_pool
    /\ project.mut_pool = project.pool

\* C9 as stated: redo() mirrors undo(), and in every state redo() followed
\* by undo() restores the committed pool and both stacks.
RedoMirrorsUndo ==
    call.op = "redo" =>
        IF call.pre.redo_pool_history # <<>>
        THEN /\ call.post.redo_pool_history = Front(call.pre.redo_pool_history)
             /\ call.post.undo_pool_history =
                    Append(call.pre.undo_pool_history, call.pre.pool)
             /\ call.post.pool = Last(call.pre.redo_pool_history)
             /\ call.post.mut_pool = Last(call.pre.redo_pool_history)
        ELSE call.post = call.pre

RedoUndoRestores ==
    LET after == undo(redo(project))
    IN /\ after.pool = project.pool
       /\ after.undo_pool_history = project.undo_pool_history
       /\ after.redo_pool_history = project.redo_pool_history

C9_Original ==
    /\ RedoMirrorsUndo
    /\ RedoUndoRestores

\* C9: redo() mirrors undo(): with a non-empty redo stack it pops the newest
\* redo snapshot, pushes the committed pool onto the undo stack and sets the
\* committed and the staging pool to the popped snapshot; with an empty redo
\* stack it changes nothing; and, when the redo stack is not empty, redo()
\* followed by undo() restores the committed pool and both stacks.
C9_Redo ==
    /\ RedoMirrorsUndo
    /\ redo_available(project) => RedoUndoRestores

\* C9, the case reached: a redo that popped a snapshot and changed the
\* committed pool, after which undo is available.
C9_Witness ==
    /\ call.op = "redo"
    /\ call.pre.redo_pool_history # <<>>
    /\ call.pre.pool # project.pool
    /\ undo_available(project)
    /\ undo(project).pool = call.pre.pool

\* C10: after an undo() or redo() that restored a snapshot, every object of
\* the committed pool has the identifier and the name it had when that
\* snapshot was the committed pool.
C10_NamesRestored ==
    (/\ call.op \in {"undo", "redo"}
     /\ call.pre.pool # call.post.pool) =>
        /\ project.pool = call.post.pool
        /\ NamesNow(project) = names_expect

\* The ids one reference step away from the ids of S in pool; an id that
\* has no object in the pool has no outgoing reference
Successors(pool, S) ==
    UNION {Range(referenced_objects(pool[i])) :
             i \in {j \in DOMAIN pool : pool[j].id \in S}}

RECURSIVE ReachableFrom(_, _)
\* The ids reachable from the ids of S in zero or more reference steps
ReachableFrom(pool, S) ==
    LET more == S \cup Successors(pool, S)
    IN IF more = S THEN S ELSE ReachableFrom(pool, more)

\* C13: when would_create_circular_reference(pool, parent, child) returns,
\* its result is true if and only if child equals parent or parent is
\* reachable from child along the reference edges of the pool, ids without
\* an object in the pool having no outgoing edge.
C13_GuardIsReachability ==
    guard.pc = "done" =>
        (guard.result <=>
            \/ guard.child_id = guard.parent_id
            \/ guard.parent_id \in ReachableFrom(guard.pool, {guard.child_id}))

\* C13, the case reached: the guard returns true for a parent that is two
\* reference steps away from a different child, having expanded two ids.
C13_Witness ==
    /\ guard.pc = "done"
    /\ guard.result
    /\ guard.child_id # guard.parent_id
    /\ Len(guard.expanded) = 2

\* The number of reference entries of the objects of the pool
RECURSIVE TotalRefs(_)
TotalRefs(pool) ==
    IF pool = <<>> THEN 0
    ELSE Len(referenced_objects(Head(pool))) + TotalRefs(Tail(pool))

RECURSIVE PushedBy(_, _)
\* The number of ids pushed on the stack by expanding the ids of a list
PushedBy(pool, ids) ==
    IF ids = <<>> THEN 0
    ELSE (IF HasObject(pool, Head(ids))
          THEN Len(referenced_objects(object_by_id(pool, Head(ids))))
          ELSE 0) + PushedBy(pool, Tail(ids))

\* C14: would_create_circular_reference terminates on every pool, cyclic or
\* not: the loop body runs at most once per id pushed, which is at most one
\* plus the number of reference entries of the pool, no id is expanded
\* twice, and what is left to do shrinks with every pass.
C14_GuardTerminates ==
    /\ \A i, j \in DOMAIN guard.expanded :
          guard.expanded[i] = guard.expanded[j] => i = j
    /\ guard.iterations <= 1 + TotalRefs(guard.pool)
    /\ guard.pc = "loop" =>
          guard.iterations + Len(guard.stack) =
              1 + PushedBy(guard.pool, guard.expanded)
    /\ guard.pc = "loop" /\ guard.stack = <<>> =>
          GuardIterate(guard).pc = "done"

\* C14, the case reached: on a pool with a reference cycle the guard has
\* returned false after it met an id it had already visited.
C14_Witness ==
    /\ guard.pc = "done"
    /\ ~guard.result
    /\ guard.iterations > Cardinality(guard.visited)
    /\ \E i \in DOMAIN guard.pool :
          guard.pool[i].id \in
              ReachableFrom(guard.pool, Range(referenced_objects(guard.pool[i])))

\* The selection side and the pool side of an EditorProject
SelectionOf(self) ==
    <<self.selected_object, self.mut_selected_object,
      self.undo_selected_history, self.redo_selected_history>>

PoolsOf(self) ==
    <<self.pool, self.mut_pool, self.undo_pool_history, self.redo_pool_history>>

\* The frame end that has just run: update_pool() took call.pre to
\* call.post and update_selected() took call.post to project
AfterEndFrame == stage = 0 /\ call.op = "update_pool"

\* C11: update_pool, undo and redo leave the committed selection, the
\* staging selection and both selection stacks as they were, and
\* update_selected, set_previous_selected and set_next_selected leave the
\* committed pool, the staging pool and both pool stacks as they were, both
\* for the call that has just run and for a call made in the current state.
C11_HistoriesIndependent ==
    /\ SelectionOf(update_pool(project).self) = SelectionOf(project)
    /\ SelectionOf(undo(project)) = SelectionOf(project)
    /\ SelectionOf(redo(project)) = SelectionOf(project)
    /\ PoolsOf(update_selected(project).self) = PoolsOf(project)
    /\ PoolsOf(set_previous_selected(project)) = PoolsOf(project)
    /\ PoolsOf(set_next_selected(project)) = PoolsOf(project)
    /\ call.op \in {"update_pool", "undo", "redo"} =>
          SelectionOf(call.post) = SelectionOf(call.pre)
    /\ call.op \in {"set_previous_selected", "set_next_selected"} =>
          PoolsOf(call.post) = PoolsOf(call.pre)
    /\ AfterEndFrame => PoolsOf(project) = PoolsOf(call.post)

\* C11, the case reached: an undo has replaced the committed pool while the
\* selection history holds an entry and an object is selected.
C11_Witness ==
    /\ call.op = "undo"
    /\ call.post.pool # call.pre.pool
    /\ project.undo_selected_history # <<>>
    /\ project.mut_selected_object # NULL_OBJECT_ID

\* C12: whenever the staging selection differs from the committed one, "no
\* selection" included, update_selected clears the selection redo stack,
\* pushes the previous committed selection onto the selection undo stack
\* (dropping the oldest entry beyond the capacity), sets committed to
\* staging and returns true, so that set_previous_selected called right
\* afterwards restores the previous selection.
C12_SelectionCommit ==
    (/\ call.op = "update_selected"
     /\ call.pre.mut_selected_object # call.pre.selected_object) =>
        /\ call.ret = TRUE
        /\ call.post.redo_selected_history = <<>>
        /\ call.post.undo_selected_history # <<>>
        /\ Last(call.post.undo_selected_history) = call.pre.selected_object
        /\ Front(call.post.undo_selected_history) =
              (IF Len(call.pre.undo_selected_history) < MAX_UNDO_REDO_SELECTED
               THEN call.pre.undo_selected_history
               ELSE Tail(call.pre.undo_selected_history))
        /\ call.post.selected_object = call.pre.mut_selected_object
        /\ set_previous_selected(call.post).selected_object =
              call.pre.selected_object

SelectorOps ==
    {"render_object_id_selector", "render_nullable_object_id_selector",
     "render_add_object_id"}

\* The ids a selector call wrote into the reference fields of the object
\* `id`: the entries of the fields after the call that are new or changed
Chosen(pre, post, id) ==
    LET before == object_by_id(pre.mut_pool, id).refs
        after == object_by_id(post.mut_pool, id).refs
    IN {after[i] : i \in {j \in DOMAIN after :
                            j \notin DOMAIN before \/ before[j] # after[j]}}
       \ {NULL_OBJECT_ID}

Acyclic(pool) ==
    \A i \in DOMAIN pool :
        pool[i].id \notin
            ReachableFrom(pool, Range(referenced_objects(pool[i])))

\* C16: the committed pool, acyclic when the document was opened, is
\* acyclic in every state reached by guarded reference edits, identifier
\* changes, copy and paste, delete, commit, undo and redo.
C16_CommittedAcyclic == Acyclic(project.pool)

\* The copy as new that has just run on a selected object of the committed
\* pool, and the paste that has just run
CopiedAsNew(self) ==
    /\ self.selected_object # NULL_OBJECT_ID
    /\ HasObject(self.pool, self.selected_object)

AfterPaste == call.op = "update_pool" /\ stage = StagePaste

C18_PasteCommits ==
    AfterPaste =>
        LET n == Len(project.pool)
        IN /\ project = call.post
           /\ project.pool = project.mut_pool
           /\ n >= Len(clipboard)
           /\ SubSeq(project.pool, n - Len(clipboard) + 1, n) = clipboard
           /\ IF call.pre.mut_pool # call.pre.pool
              THEN /\ call.ret = TRUE
                   /\ project.redo_pool_history = <<>>
                   /\ project.undo_pool_history # <<>>
                   /\ Last(project.undo_pool_history) = call.pre.pool
                   /\ Front(project.undo_pool_history) =
                         (IF Len(call.pre.undo_pool_history) < MAX_UNDO_REDO_POOL
                          THEN call.pre.undo_pool_history
                          ELSE Tail(call.pre.undo_pool_history))
              ELSE /\ call.ret = FALSE
                   /\ project.undo_pool_history = call.pre.undo_pool_history
                   /\ project.redo_pool_history = call.pre.redo_pool_history

\* C18, the case reached: a paste of an exact copy added the object to
\* both pools and pushed the pool before the paste onto the undo stack.
C18_Witness ==
    /\ AfterPaste
    /\ call.ret = TRUE
    /\ call.prev_op = "copy_selected_objects_exact"
    /\ Len(project.pool) = Len(call.pre.pool) + Len(clipboard)
    /\ Len(project.undo_pool_history) = Len(call.pre.undo_pool_history) + 1

\* The import merge that has just run without a panic
AfterImport == call.op = "import" /\ ~aborted

\* C19: the new ids an import merge gives to the imported objects are
\* pairwise distinct, none of them is the id of an object of the target
\* pool, and each lies in the id range of the type of its object.
C19_ImportIdsFresh ==
    AfterImport =>
        /\ \A a, b \in DOMAIN merge.id_map :
              merge.id_map[a] = merge.id_map[b] => a = b
        /\ \A a \in DOMAIN merge.id_map :
              /\ ~HasObject(merge.target, merge.id_map[a])
              /\ HasObject(merge.import_pool, a)
              /\ InRange(merge.id_map[a],
                         object_id_range(object_by_id(merge.import_pool, a).type))
        /\ PoolIds(merge.imported_objects) =
              {merge.id_map[a] : a \in DOMAIN merge.id_map}
        /\ \A i \in DOMAIN merge.imported_objects :
              \E j \in DOMAIN project.pool :
                  project.pool[j] = merge.imported_objects[i]

\* C19, the case reached: two buttons were imported together into a pool
\* that holds button 6000, and got 6001 and 6002.
C19_Witness ==
    /\ AfterImport
    /\ HasObject(merge.target, 6000)
    /\ DOMAIN merge.id_map = {6000, 6001}
    /\ {merge.id_map[a] : a \in DOMAIN merge.id_map} = {6001, 6002}

\* C20: after an import merge, every reference field of every imported
\* object, whatever its type, that held the id of an object of the import
\* batch holds the new id of that object, and every other reference field
\* holds what it held in the import pool.
C20_ReferencesRemapped ==
    AfterImport =>
        \A old_id \in DOMAIN merge.id_map :
            LET original == object_by_id(merge.import_pool, old_id)
                imported == object_by_id(project.pool, merge.id_map[old_id])
            IN /\ imported.type = original.type
               /\ DOMAIN imported.refs = DOMAIN original.refs
               /\ \A i \in DOMAIN original.refs :
                     imported.refs[i] =
                         (IF original.refs[i] \in DOMAIN merge.id_map
                          THEN merge.id_map[original.refs[i]]
                          ELSE original.refs[i])

\* The working-set objects of a pool
WorkingSets(pool) == SelectSeq(pool, LAMBDA o : o.type = "WorkingSet")

\* The ids reached from the chosen subset over the reference fields of the
\* objects of import_pool
ImportClosure(import_pool, selected) == ReachableFrom(import_pool, selected)

\* C21: an import merge inserts no working-set object (the working-set
\* objects of the committed and of the staging pool are those of the target
\* pool before the merge), and every object of the import pool reached from
\* the chosen subset that is not a working set is imported: it has a new id
\* and an object of its type with that id is in the pool.
C21_WorkingSetNeverImported ==
    AfterImport =>
        /\ WorkingSets(project.pool) = WorkingSets(merge.target)
        /\ WorkingSets(project.mut_pool) = WorkingSets(merge.target)
        /\ \A i \in DOMAIN merge.imported_objects :
              merge.imported_objects[i].type # "WorkingSet"
        /\ \A id \in ImportClosure(merge.import_pool, merge.selected) :
              (/\ HasObject(merge.import_pool, id)
               /\ object_by_id(merge.import_pool, id).type # "WorkingSet")
              => /\ id \in DOMAIN merge.id_map
                 /\ HasObject(project.pool, merge.id_map[id])
                 /\ object_by_id(project.pool, merge.id_map[id]).type =
                       object_by_id(merge.import_pool, id).type

\* C21, the case reached: the working set of the import pool was chosen, and
\* the container and the button below it were imported into a document that
\* has no working set.
C21_Witness ==
    /\ AfterImport
    /\ merge.selected = {0}
    /\ object_by_id(merge.import_pool, 0).type = "WorkingSet"
    /\ WorkingSets(merge.target) = <<>>
    /\ DOMAIN merge.id_map = {3000, 6000}
    /\ Len(project.pool) = Len(merge.target) + 2

\* An undo made right after an import merge
UndoAfterImport == call.op = "undo" /\ call.prev_op = "import"

AfterLoadPool == call.op = "load_pool"

\* A project file has just been loaded with success
AfterLoadProject == call.op = "load_project" /\ call.ret

\* The name an object of the document carries
CurrentName(id) ==
    NameOf(project.object_info, object_by_id(project.pool, id))

\* The names the metadata of the project file just loaded gives to objects
\* of the pool
MetadataNames ==
    RestoreMetadata(project.pool, load.content.json[1].object_metadata)

\* The ids of the objects the last load or import merge gave a generated name
GeneratedIds ==
    IF AfterLoadPool
    THEN IF load.apply_smart_naming_on_import THEN PoolIds(project.pool) ELSE {}
    ELSE IF AfterLoadProject
    THEN PoolIds(project.pool) \ DOMAIN MetadataNames
    ELSE IF AfterImport
    THEN LET existing_names ==
                 {merge.target_info[id] :
                     id \in DOMAIN merge.target_info \cap PoolIds(merge.target)}
         IN {id \in PoolIds(merge.imported_objects) :
                InfoHas(merge.target_info, id)
                    => merge.target_info[id] \in existing_names}
    ELSE {}

\* C23: after a raw pool load with automatic naming, a project load or an
\* import merge, every object that was given a generated name has a name
\* that no other object of the committed pool has, be the other name
\* generated or not.
C23_GeneratedNamesDistinct ==
    \A id \in GeneratedIds :
        /\ InfoHas(project.object_info, id)
        /\ \A other \in PoolIds(project.pool) \ {id} :
              CurrentName(other) # CurrentName(id)

\* One of the two automatic naming methods has just run
AfterNaming ==
    call.op \in {"apply_smart_naming_to_object",
                 "apply_smart_naming_to_all_objects"}

\* C24: apply_smart_naming_to_object and apply_smart_naming_to_all_objects
\* leave every name that was stored before the call as it was, and running
\* the method again on the document it left changes no name: not the
\* all-objects method, and not the one-object method on any object that has
\* a name.
C24_NamingKeepsNames ==
    AfterNaming =>
        /\ \A id \in DOMAIN call.pre.object_info :
              /\ InfoHas(project.object_info, id)
              /\ project.object_info[id] = call.pre.object_info[id]
        /\ call.op = "apply_smart_naming_to_all_objects" =>
              apply_smart_naming_to_all_objects(project).object_info
                  = project.object_info
        /\ call.op = "apply_smart_naming_to_object" =>
              \A i \in DOMAIN project.pool :
                  InfoHas(project.object_info, project.pool[i].id) =>
                      apply_smart_naming_to_object(project, project.pool[i])
                          = project

\* C25: after a load_project that succeeds, the pool is the one decoded
\* from the embedded pool data, every object whose id has a name in the
\* metadata of the wrapper carries that name, and every other object
\* carries a stored, generated name that no other object of the pool has.
C25_LoadRestoresNames ==
    AfterLoadProject =>
        /\ project.pool = from_iop(load.content.json[1].object_pool_data)
        /\ \A id \in DOMAIN MetadataNames :
              CurrentName(id) = MetadataNames[id]
        /\ \A id \in PoolIds(project.pool) \ DOMAIN MetadataNames :
              /\ InfoHas(project.object_info, id)
              /\ \A other \in PoolIds(project.pool) \ {id} :
                    CurrentName(other) # CurrentName(id)

\* C25, the case reached: the metadata names key 5000 "Start", the pool
\* holds keys 5000 and 5001, and after the load 5000 is "Start" and 5001
\* has another, generated name.
C25_Witness ==
    /\ AfterLoadProject
    /\ DOMAIN MetadataNames = {5000}
    /\ PoolIds(project.pool) = {5000, 5001}
    /\ CurrentName(5000) = "Start"
    /\ InfoHas(project.object_info, 5001)
    /\ CurrentName(5001) # "Start"

\* settings.last_selected of the project file just loaded
LastSelected == load.content.json[1].settings.last_selected

\* C26: after a load_project that succeeds, the committed and the staging
\* selection are the last-selected id of the wrapper when an object of the
\* loaded pool has that id, and are empty when the wrapper names no id or
\* an id that no object of the loaded pool has.
C26_SelectionRestoredIfExists ==
    AfterLoadProject =>
        IF LastSelected # <<>> /\ HasObject(project.pool, LastSelected[1])
        THEN /\ project.selected_object = LastSelected[1]
             /\ project.mut_selected_object = LastSelected[1]
        ELSE /\ project.selected_object = NULL_OBJECT_ID
             /\ project.mut_selected_object = NULL_OBJECT_ID

\* load_project has just returned, with Ok or with Err
LoadProjectReturned == call.op = "load_project"

\* The embedded pool data of the file handed to load_project, when the
\* wrapper parses
EmbeddedPoolData == load.content.json[1].object_pool_data

\* C27: load_project returns Err, and with it no document, when the bytes
\* do not parse as a wrapper, when the embedded pool data has fewer than 4
\* bytes, and when embedded pool data of more than 4 bytes decodes to a pool
\* without objects.
C27_LoadProjectFails ==
    LoadProjectReturned =>
        ((\/ from_bytes(load.content) = <<>>
          \/ EmbeddedPoolData.len < 4
          \/ EmbeddedPoolData.len > 4 /\ from_iop(EmbeddedPoolData) = <<>>)
         => /\ ~load.ok
            /\ ~call.ret
            /\ ~load_project(load.content).ok
            /\ load_project(load.content).project = <<>>)

\* C27, the case reached: the wrapper parsed, its pool data of 9 bytes
\* decoded to no object, and load_project returned Err.
C27_Witness ==
    /\ LoadProjectReturned
    /\ from_bytes(load.content) # <<>>
    /\ EmbeddedPoolData.len = 9
    /\ from_iop(EmbeddedPoolData) = <<>>
    /\ ~load.ok

\* The file just handed to handle_file_loaded was malformed: a project
\* file whose wrapper does not parse or whose pool data is truncated or
\* holds no object, or a raw pool file that decodes to no object
MalformedInput ==
    \/ /\ call.op = "load_project"
       /\ \/ from_bytes(load.content) = <<>>
          \/ EmbeddedPoolData.len < 4
          \/ EmbeddedPoolData.len > 4 /\ from_iop(EmbeddedPoolData) = <<>>
    \/ /\ call.op = "load_pool"
       /\ from_iop(load.content.iop) = <<>>

\* C28: when a raw pool load or a project load receives malformed input,
\* the document is the one open before: committed and staging pool, pool
\* and selection histories, selection and names are unchanged.
C28_FailedLoadKeepsDocument ==
    MalformedInput => project = call.pre

\* Every id of the range of object_type is the id of an object of the pool
RangeFull(pool, object_type) ==
    Cardinality({id \in PoolIds(pool) : InRange(id, RangeOf[object_type])})
        = RangeOf[object_type][2] - RangeOf[object_type][1] + 1

\* The object types with a range that reaches into the b-th block of a
\* thousand ids
TypesOfBlock ==
    [b \in 0..65 |->
        {t \in ObjectTypes :
            RangeOf[t][1] \div 1000 <= b /\ b <= RangeOf[t][2] \div 1000}]

\* The object types whose range holds id
TypesHolding(id) == {t \in TypesOfBlock[id \div 1000] : InRange(id, RangeOf[t])}

\* C29: for every object type whose range holds an id of the committed
\* pool (no other range can be full), when every id of the range is in the
\* pool the allocation panics, and otherwise it returns an id of the range
\* that no object of the pool has; the search of the import merge over the
\* range ends the same way; and a copy as new of a selected object whose
\* range is full, as the working set 0 in 0..=0, aborts instead of
\* returning a clone.
C29_ExhaustedRangeAborts ==
    /\ \A x \in PoolIds(project.pool) :
          \A t \in TypesHolding(x) :
              LET id == allocate_object_id_for_type(project, t)
                  found == FirstUnused(project.pool, {}, RangeOf[t][1],
                                       RangeOf[t][2])
              IN IF RangeFull(project.pool, t)
                 THEN id = PANIC /\ found = PANIC
                 ELSE /\ InRange(id, RangeOf[t])
                      /\ ~HasObject(project.pool, id)
                      /\ InRange(found, RangeOf[t])
                      /\ ~HasObject(project.pool, found)
    /\ (/\ call.op = "copy_selected_objects_as_new"
        /\ HasObject(call.pre.pool, call.pre.selected_object)) =>
          (aborted <=>
              RangeFull(call.pre.pool,
                        object_by_id(call.pre.pool,
                                     call.pre.selected_object).type))

\* C29, the case reached: copy as new of the selected working set 0, whose
\* range 0..=0 it fills, has aborted.
C29_Witness ==
    /\ call.op = "copy_selected_objects_as_new"
    /\ call.pre.selected_object = 0
    /\ object_by_id(call.pre.pool, 0).type = "WorkingSet"
    /\ aborted

\* C30: no document operation reaches an uncaught abort: the process never
\* unwinds from a panic.
C30_NoUncaughtAbort == ~aborted

\* The committed selection of self names an id that has no object in the
\* committed pool
SelectionMissing(self) ==
    /\ self.selected_object # NULL_OBJECT_ID
    /\ ~HasObject(self.pool, self.selected_object)

\* The ids of to_import that have no object in the import pool
MissingImports ==
    {id \in Range(merge.to_import) : ~HasObject(merge.import_pool, id)}

\* C31: an id that resolves to no object is a missing object and never an
\* abort. Copy exact and copy as new called while the committed selection
\* names an id absent from the committed pool return no object and leave
\* the document as it was; the cycle guard run on a pool with references to
\* absent ids returns the reachability answer in which an absent id has no
\* outgoing reference; the import merge gives an absent id it collected no
\* new id and no clone and imports the objects that are there.
C31_MissingObjectTolerated ==
    /\ (/\ call.op \in {"copy_selected_objects_exact",
                         "copy_selected_objects_as_new"}
        /\ SelectionMissing(call.pre)) =>
           /\ ~aborted
           /\ copy_selected_objects_exact(call.pre) = <<>>
           /\ copy_selected_objects_as_new(call.pre) =
                 [panic |-> FALSE, objects |-> <<>>]
           /\ project = call.pre
    /\ (/\ guard.pc = "done"
        /\ \E id \in Range(guard.expanded) : ~HasObject(guard.pool, id)) =>
           /\ ~aborted
           /\ guard.result <=>
                 \/ guard.child_id = guard.parent_id
                 \/ guard.parent_id
                       \in ReachableFrom(guard.pool, {guard.child_id})
    /\ (call.op = "import" /\ MissingImports # {}) =>
           /\ ~aborted
           /\ MissingImports \cap DOMAIN merge.id_map = {}
           /\ Len(merge.imported_objects) =
                 Cardinality(Range(merge.to_import) \ MissingImports)
           /\ Range(merge.to_import) =
                 retain_importable(
                     merge.import_pool,
                     ReachableFrom(merge.import_pool, merge.selected))

\* C31, the cases reached: the selected container was deleted, the deletion
\* committed and the selection then copied; the guard expanded an absent
\* id; an import collected an absent id.
C31_Witness ==
    /\ call.op = "copy_selected_objects_exact"
    /\ SelectionMissing(call.pre)
    /\ call.pre.pool # <<>>

C31_WitnessGuard ==
    /\ guard.pc = "done"
    /\ \E id \in Range(guard.expanded) : ~HasObject(guard.pool, id)

C31_WitnessImport ==
    /\ call.op = "import"
    /\ MissingImports # {}
    /\ merge.imported_objects # <<>>

\* C32: the image load request is one slot in which the last request wins.
\* The slot holds the most recent request made since the previous take, or
\* nothing when there was none; take_image_load_request returns what the
\* slot held and leaves it empty, so a take that follows a take with no
\* request in between returns nothing.
C32_ImageRequestSlot ==
    /\ project.image_load_request =
          (IF io.requested = <<>> THEN <<>> ELSE <<Last(io.requested)>>)
    /\ call.op = "take_image_load_request" =>
          /\ io.taken[1].ret =
                (IF io.taken[1].requests = <<>> THEN <<>>
                 ELSE <<Last(io.taken[1].requests)>>)
          /\ project.image_load_request = <<>>
          /\ call.prev_op = "take_image_load_request" => io.taken[1].ret = <<>>

\* C32, the case reached: a take after requests for two different objects
\* returned the second and left the slot empty.
C32_Witness ==
    /\ call.op = "take_image_load_request"
    /\ io.taken[1].requests = <<20000, 20001>>
    /\ io.taken[1].ret = <<20001>>
    /\ project.image_load_request = <<>>

\* The pool of the project file that the bytes hold
SavedPool(content) == from_iop(from_bytes(content)[1].object_pool_data)

\* C33: save_project serializes the committed pool, whatever the staging
\* pool holds, and leaves the document as it was: every field of the
\* EditorProject, the two pools, the four histories and the two selections
\* among them, is the same after the call as before.
C33_SaveLeavesDocument ==
    call.op = "save_project" =>
        /\ project = call.pre
        /\ call.post = call.pre
        /\ io.saved[1].self = call.pre
        /\ SavedPool(io.saved[1].content) = call.pre.pool

\* C33, the case reached: a save while the staging pool holds an object
\* the committed pool does not, with a snapshot on the undo stack.
C33_Witness ==
    /\ call.op = "save_project"
    /\ project.mut_pool # project.pool
    /\ project.undo_pool_history # <<>>
    /\ SavedPool(io.saved[1].content) = project.pool

\* The bytes of the last save have just been opened as a project
Reopened ==
    /\ call.op = "load_project"
    /\ io.saved # <<>>
    /\ load.content = io.saved[1].content

\* C34: when the bytes save_project made of a document with a non-empty
\* committed pool are opened with load_project, the load succeeds and the
\* document it yields has the committed pool of the saved document, the
\* name of every object of that pool that had one, its mask size, and as
\* committed and staging selection the selection that was saved.
C34_ProjectRoundTrip ==
    (Reopened /\ io.saved[1].self.pool # <<>>) =>
        LET doc == io.saved[1].self
        IN /\ call.ret
           /\ project.pool = doc.pool
           /\ project.mut_pool = doc.pool
           /\ \A i \in DOMAIN doc.pool :
                 InfoHas(doc.object_info, doc.pool[i].id) =>
                    /\ InfoHas(project.object_info, doc.pool[i].id)
                    /\ project.object_info[doc.pool[i].id] =
                          doc.object_info[doc.pool[i].id]
           /\ project.mask_size = doc.mask_size
           /\ project.selected_object = SavedSelection(doc)
           /\ project.mut_selected_object = SavedSelection(doc)

\* C34, the case reached: a document with a named object, a changed mask
\* size and a selection was saved and opened again.
C34_Witness ==
    /\ Reopened
    /\ call.ret
    /\ \E i \in DOMAIN project.pool :
          /\ InfoHas(io.saved[1].self.object_info, project.pool[i].id)
          /\ project.object_info[project.pool[i].id] = "Start"
    /\ project.mask_size = 480
    /\ project.selected_object # NULL_OBJECT_ID

\* C35: after every commit that returns changed, and after every undo and
\* redo that restores a snapshot, the cached next available id is one more
\* than the highest id of the committed pool.
C35_HintFollowsCommit ==
    (\/ call.op = "update_pool" /\ call.ret
     \/ call.op = "undo" /\ undo_available(call.pre)
     \/ call.op = "redo" /\ redo_available(call.pre)) =>
        call.post.next_available_id = SaturatingInc(MaxId(call.post.pool))

\* C36: the pool undo stack and the pool redo stack together never hold
\* more than MAX_UNDO_REDO_POOL snapshots, so each of them stays within the
\* capacity; undo() and redo(), which push without truncating, move one
\* snapshot from one stack to the other and leave the total as it was.
C36_PoolStacksBounded ==
    /\ Len(project.undo_pool_history) + Len(project.redo_pool_history)
          <= MAX_UNDO_REDO_POOL
    /\ Len(project.undo_pool_history) <= MAX_UNDO_REDO_POOL
    /\ Len(project.redo_pool_history) <= MAX_UNDO_REDO_POOL
    /\ call.op \in {"undo", "redo"} =>
          Len(call.post.undo_pool_history) + Len(call.post.redo_pool_history)
            = Len(call.pre.undo_pool_history) + Len(call.pre.redo_pool_history)

\* C36, the case reached: the redo stack holds as many snapshots as the
\* capacity after an undo, and the undo stack is empty.
C36_Witness ==
    /\ call.op = "undo"
    /\ Len(project.redo_pool_history) = MAX_UNDO_REDO_POOL
    /\ project.undo_pool_history = <<>>

\* C37: the selection undo stack never holds more than
\* MAX_UNDO_REDO_SELECTED entries, a selection commit that finds it full
\* drops its oldest entry, and the selection undo and redo stacks together
\* never hold more than MAX_UNDO_REDO_SELECTED entries.
C37_SelectionStacksBounded ==
    /\ Len(project.undo_selected_history) <= MAX_UNDO_REDO_SELECTED
    /\ Len(project.undo_selected_history) + Len(project.redo_selected_history)
          <= MAX_UNDO_REDO_SELECTED
    /\ (/\ call.op = "update_selected"
        /\ call.ret
        /\ call.pre.mut_selected_object # NULL_OBJECT_ID
        /\ Len(call.pre.undo_selected_history) = MAX_UNDO_REDO_SELECTED) =>
           call.post.undo_selected_history =
               Tail(Append(call.pre.undo_selected_history,
                           call.pre.selected_object))

\* C37, the case reached: a selection commit while the selection undo stack
\* is full.
C37_Witness ==
    /\ call.op = "update_selected"
    /\ call.ret
    /\ Len(call.pre.undo_selected_history) = MAX_UNDO_REDO_SELECTED
    /\ Len(project.undo_selected_history) = MAX_UNDO_REDO_SELECTED
    /\ call.pre.undo_selected_history[1] # call.pre.undo_selected_history[2]

\* undo() or redo() has just restored a snapshot
Restored(op, pre) ==
    \/ op = "undo" /\ undo_available(pre)
    \/ op = "redo" /\ redo_available(pre)

\* set_previous_selected() or set_next_selected() has just restored a
\* selection
Navigated(op, pre) ==
    \/ op = "set_previous_selected" /\ pre.undo_selected_history # <<>>
    \/ op = "set_next_selected" /\ pre.redo_selected_history # <<>>

\* The document is clean, and a commit of it returns false and changes
\* nothing
CommitIsNoOp(self) ==
    /\ self.mut_pool = self.pool
    /\ update_pool(self) = [self |-> self, ret |-> FALSE]

\* The same for the selection
SelectionCommitIsNoOp(self) ==
    /\ self.mut_selected_object = self.selected_object
    /\ update_selected(self) = [self |-> self, ret |-> FALSE]

\* The document as undo() or redo() left it: a commit that starts from it
\* follows with no edit in between
RestoredTo(op, pre) == IF op = "undo" THEN undo(pre) ELSE redo(pre)

\* C38 as stated: right after any undo() or redo() the document is clean
\* and the commit that follows returns false, and right after any
\* set_previous_selected() or set_next_selected() the selection commit that
\* follows returns false.
C38_Original ==
    /\ call.op \in {"undo", "redo"} => CommitIsNoOp(call.post)
    /\ call.op \in {"set_previous_selected", "set_next_selected"} =>
          SelectionCommitIsNoOp(call.post)

\* C38: right after an undo() or redo() that found a snapshot to pop the
\* document is clean, and the commit that follows with no edit in between
\* returns false, pushes nothing onto the undo stack and leaves the redo
\* stack as it is; right after a set_previous_selected() or
\* set_next_selected() that found an entry to pop, the update_selected()
\* that follows returns false.
C38_CleanAfterUndo ==
    /\ Restored(call.op, call.pre) => CommitIsNoOp(call.post)
    /\ Navigated(call.op, call.pre) => SelectionCommitIsNoOp(call.post)
    /\ (/\ call.op = "update_pool"
        /\ Restored(call.prev_op, call.prev_pre)
        /\ call.pre = RestoredTo(call.prev_op, call.prev_pre)) =>
          /\ ~call.ret
          /\ call.post.undo_pool_history = call.pre.undo_pool_history
          /\ call.post.redo_pool_history = call.pre.redo_pool_history
          /\ call.post.redo_pool_history # <<>> \/ call.prev_op = "redo"

\* C38, the case reached: an undo that discarded an uncommitted edit and
\* popped a snapshot was followed by the commit of the frame end, which
\* returned false and left the snapshot on the redo stack.
C38_Witness ==
    /\ call.op = "update_pool"
    /\ call.prev_op = "undo"
    /\ undo_available(call.prev_pre)
    /\ call.prev_pre.mut_pool # call.prev_pre.pool
    /\ ~call.ret
    /\ Len(project.redo_pool_history) = 1

\* C39: whatever the interleaving of dialog openings and file deliveries,
\* a content that handle_file_loaded receives is applied under the reason
\* of the dialog that produced it: never under the reason of another
\* dialog, and never under no reason at all, which drops it.
C39_DeliveredUnderOwnReason ==
    io.received # <<>> =>
        io.received[1].reason = <<io.received[1].dialog>>

====
